---------------------------- MODULE Spec2Model ----------------------------
(***************************************************************************)
(* A model of the LDtk -> Godot TSCN converter: the coordinate codec       *)
(* (js/utils.js), the tileset mapper (js/tilesetMapper.js), the level      *)
(* parser (ldtkParser.js), the scene generator (js/tscnGenerator.js) and   *)
(* the controller that drives them (main.js).                              *)
(*                                                                         *)
(* JavaScript values are modelled as follows.  An object is a record; a    *)
(* property that is absent (undefined) is a field that is not in the       *)
(* record's DOMAIN.  An array is a sequence.  A string that the code takes *)
(* apart character by character (a name that is sanitized) is a sequence   *)
(* of one-character strings; every other string is a TLA+ string.  Numbers *)
(* are integers: every value the model computes stays far below 2^53, so   *)
(* the doubles of the code are exact.                                      *)
(***************************************************************************)
EXTENDS Integers, Sequences, FiniteSets, Bags, TLC

VARIABLES
    gridX, gridY,       \* arguments of Utils.gridToGodotPosition
    position,           \* its result, once computed
    pixel, gridSize,    \* arguments of Utils.pixelToGrid
    gridPos,            \* its result, empty until computed
    data,               \* LDtkParser.data: the parsed document
    levelIdentifier,    \* argument of the last convertLevel
    options,            \* argument of the last convertLevel
    conversionData,     \* value returned by LDtkParser.convertLevel
    tscn,               \* value returned by TSCNGenerator.generateTSCN
    thrown,             \* message of the Error the last call threw, or NoError
    console,            \* warnings Utils.log wrote during the conversion request
    pc,                 \* the call that ran last (which call comes next)
    uiState,            \* UIManager.state: fileLoaded, levelSelected, converting
    levelSelect,        \* elements.levelSelect: its options, its value, whether shown
    convertBtnDisabled, \* elements.convertBtn.disabled
    fileStatus,         \* elements.ldtkStatus: the class and the message set last
    currentData,        \* LDtkTSCNConverter.currentData
    storedResult,       \* UIManager.tscnContent and UIManager.filename
    outputShown,        \* elements.outputSection is displayed
    pendingReads,       \* bag of the files whose loadFile is suspended at its await
    timers,             \* callbacks given to setTimeout(..., 500), in call order
    downloaded,         \* content and filename last given to Utils.downloadFile
    localStorage,       \* window.localStorage: the timestamps of its backup keys
    history             \* the requests converted so far, each with its output

vars == <<gridX, gridY, position, pixel, gridSize, gridPos, data, levelIdentifier, options,
          conversionData, tscn, thrown, console, pc,
          uiState, levelSelect, convertBtnDisabled, fileStatus, currentData,
          storedResult, outputShown, pendingReads, timers, downloaded,
             localStorage, history>>

codecVars == <<gridX, gridY, position, pixel, gridSize, gridPos>>
pipelineVars == <<data, levelIdentifier, options, conversionData, tscn,
                  thrown, console>>
appVars == <<uiState, levelSelect, convertBtnDisabled, fileStatus, currentData,
             storedResult, outputShown, pendingReads, timers, downloaded,
             localStorage, history>>

(***************************************************************************)
(* Values standing for "nothing there".                                    *)
(***************************************************************************)
NoValue == [none |-> TRUE]
NoError == ""

(***************************************************************************)
(* Bounds of the model.                                                    *)
(***************************************************************************)
MaxCoord == 2       \* grid coordinates 0..MaxCoord, and as many below 65535
MaxTiles == 3       \* most grid tiles of a layer
MaxLayers == 3      \* most layer instances of a level
MaxInFlight == 2    \* most suspended loads and pending timers together
MaxNameLen == 3     \* most characters of a level identifier
MaxClock == 7       \* latest time, in clock ticks, of a backup

(***************************************************************************)
(* Program constants.                                                      *)
(***************************************************************************)
PositionStride == 65536     \* Utils.gridToGodotPosition: y * 65536 + x
DefaultGridSize == 16       \* Utils.pixelToGrid(px, gridSize = 16)
FallbackTileGridSize == 16  \* generateTileData: tileset.tileGridSize || 16
SourceStride == 65536       \* getGodotSourceFromAtlas: atlasX * 65536
SunnyLandUid == 2           \* setupSunnyLandMapping: uid: 2
SunnyLandTileGridSize == 16 \* setupSunnyLandMapping: tileGridSize: 16
BackupsKept == 5            \* clearOldBackups: backupKeys.length > 5, slice(0, -5)

SupportedTileset == "SunnyLand_by_Ansimuz"

---------------------------------------------------------------------------
(***************************************************************************)
(* js/utils.js                                                             *)
(***************************************************************************)

\* Math.floor(a / b) for a divisor b > 0: \div floors toward minus infinity.
Floor(a, b) == a \div b

\* A conversion that answers with the cell after the one the pixel is in.
pixelToGrid_nextCell(px, size) == <<Floor(px[1], size) + 1, Floor(px[2], size) + 1>>

pixelToGrid(px, size) == <<Floor(px[1], size), Floor(px[2], size)>>

gridToGodotPosition_stride65535(gx, gy) == gy * 65535 + gx

gridToGodotPosition(gx, gy) == gy * PositionStride + gx

\* f & 1 and f & 2 on the two's complement of f.
extractFlipFlags(f) ==
    [flipH |-> (f % 2) # 0, flipV |-> ((f \div 2) % 2) # 0]

\* Utils.log(message, type): the model keeps the warnings, in order.
LogWarning(code, subject) == [type |-> "warning", code |-> code, subject |-> subject]

---------------------------------------------------------------------------
(***************************************************************************)
(* js/tilesetMapper.js                                                     *)
(***************************************************************************)

SunnyLandConfig ==
    [identifier |-> SupportedTileset, uid |-> SunnyLandUid,
     tileGridSize |-> SunnyLandTileGridSize]

\* this.tilesetMappings, by the numeric key; the string key
\* "SunnyLand_by_Ansimuz" maps to the same object and is what
\* ldtkSourceToGodotSource falls back to.
tilesetMappings == (SunnyLandUid :> SunnyLandConfig)

\* workingMappings of getGodotSourceFromAtlas, keyed `${atlasX}:${atlasY}`.
workingMappings ==
    (<<2, 2>> :> 262153) @@ (<<2, 4>> :> 131072) @@ (<<0, 2>> :> 262144) @@
    (<<8, 6>> :> 524294) @@ (<<2, 7>> :> 131079) @@ (<<1, 7>> :> 65543) @@
    (<<3, 7>> :> 196615) @@ (<<2, 0>> :> 131072) @@ (<<6, 6>> :> 6)

getGodotSourceFromAtlas(atlasX, atlasY) ==
    IF <<atlasX, atlasY>> \in DOMAIN workingMappings
    THEN workingMappings[<<atlasX, atlasY>>]
    ELSE atlasX * SourceStride

ldtkSourceToGodotSource(srcX, srcY, tilesetUid) ==
    LET tileset == IF tilesetUid \in DOMAIN tilesetMappings
                   THEN tilesetMappings[tilesetUid]
                   ELSE SunnyLandConfig
        tileGridSize == tileset.tileGridSize
        atlasX == Floor(srcX, tileGridSize)
        atlasY == Floor(srcY, tileGridSize)
    IN  getGodotSourceFromAtlas(atlasX, atlasY)

\* workingAlternatives of getAlternativeTileId.
workingAlternatives ==
    (<<2, 2>> :> 9) @@ (<<2, 4>> :> 4) @@ (<<0, 2>> :> 2) @@
    (<<8, 6>> :> 6) @@ (<<2, 7>> :> 7) @@ (<<1, 7>> :> 7) @@
    (<<3, 7>> :> 7) @@ (<<2, 0>> :> 0) @@ (<<6, 6>> :> 6)

Max(a, b) == IF a >= b THEN a ELSE b

getAlternativeTileId_rowTimesGrid(flipFlags, atlasX, atlasY) ==
    IF <<atlasX, atlasY>> \in DOMAIN workingAlternatives
    THEN workingAlternatives[<<atlasX, atlasY>>]
    ELSE Max(0, atlasY) * 16

\* The flipFlags argument is accepted and never read.
getAlternativeTileId(flipFlags, atlasX, atlasY) ==
    IF <<atlasX, atlasY>> \in DOMAIN workingAlternatives
    THEN workingAlternatives[<<atlasX, atlasY>>]
    ELSE Max(0, atlasY)

\* getRotatedTileMappings returns an empty Map, so a flipped tile always takes
\* the branch that logs and returns the unrotated cell.
getRotatedTileMappings == << >>

\* A handler that answers a horizontal flip with the next cell of the row,
\* silently.
handleRotatedTile_nextCell(atlasX, atlasY, flipFlags) ==
    [tile |-> [atlasX |-> IF flipFlags.flipH THEN atlasX + 1 ELSE atlasX,
               atlasY |-> atlasY, flipH |-> FALSE, flipV |-> FALSE],
     log |-> << >>]

handleRotatedTile(atlasX, atlasY, flipFlags) ==
    [tile |-> [atlasX |-> atlasX, atlasY |-> atlasY,
               flipH |-> FALSE, flipV |-> FALSE],
     log |-> IF flipFlags.flipH \/ flipFlags.flipV
             THEN <<LogWarning("cannot_rotate", <<atlasX, atlasY>>)>>
             ELSE << >>]

validateTileset_acceptAll(tilesetData) == [isValid |-> TRUE]

\* A validation that also takes the other tileset it has a resource path for.
validateTileset_alsoClassic(tilesetData) ==
    IF tilesetData.identifier \notin {SupportedTileset, "ClassicAutoTiles"}
    THEN [isValid |-> FALSE,
          message |-> <<"Unsupported tileset: ", tilesetData.identifier,
                        ". Supported tilesets: ", SupportedTileset>>]
    ELSE [isValid |-> TRUE]

validateTileset(tilesetData) ==
    IF tilesetData.identifier # SupportedTileset
    THEN [isValid |-> FALSE,
          message |-> <<"Unsupported tileset: ", tilesetData.identifier,
                        ". Supported tilesets: ", SupportedTileset>>]
    ELSE [isValid |-> TRUE]

\* One-character strings spell the names that sanitizeNodeName takes apart.
Name_Background == <<"B", "a", "c", "k", "g", "r", "o", "u", "n", "d">>
Name_WallShadows == <<"W", "a", "l", "l", "S", "h", "a", "d", "o", "w", "s">>
Name_Collisions == <<"C", "o", "l", "l", "i", "s", "i", "o", "n", "s">>

ColorWhite == "Color(1, 1, 1, 1)"

getLayerConfig(layerIdentifier) ==
    CASE layerIdentifier = "Bg_textures_baked" ->
            [name |-> Name_Background, zIndex |-> 0, modulate |-> ColorWhite]
      [] layerIdentifier = "Wall_shadows_baked" ->
            [name |-> Name_WallShadows, zIndex |-> 1,
             modulate |-> "Color(1, 1, 1, 0.17)"]
      [] layerIdentifier = "Collisions_baked" ->
            [name |-> Name_Collisions, zIndex |-> 2, modulate |-> ColorWhite]
      [] OTHER ->
            [name |-> <<layerIdentifier>>, zIndex |-> 0, modulate |-> ColorWhite]

getTilesetResourcePath(tilesetIdentifier) ==
    CASE tilesetIdentifier = "SunnyLand_by_Ansimuz" -> "res://Tiles/SunnyLandTileset.tres"
      [] tilesetIdentifier = "ClassicAutoTiles" -> "res://Tiles/ClassicAutoTiles.tres"
      [] OTHER -> "res://Tiles/TilesDefault.tres"

getTextureResourcePath(tilesetIdentifier) ==
    CASE tilesetIdentifier = "SunnyLand_by_Ansimuz" -> "res://Tiles/SunnyLand_by_Ansimuz-extended.png"
      [] tilesetIdentifier = "ClassicAutoTiles" -> "res://Tiles/ClassicAutoTiles.png"
      [] OTHER -> "res://Tiles/Green.png"

---------------------------------------------------------------------------
(***************************************************************************)
(* ldtkParser.js                                                           *)
(*                                                                         *)
(* The document: [levels |-> sequence of levels, tilesets |-> sequence of  *)
(* tileset definitions (defs.tilesets)].  A level is [identifier,          *)
(* layerInstances]; a layer instance is [identifier (__identifier),        *)
(* tilesetDefUid (__tilesetDefUid), gridTiles]; a grid tile is [px, src,   *)
(* f], any of which may be absent.  The fields the conversion copies and   *)
(* never reads again (iid, uid, worldX, pxWid, __type, __opacity, t, d, a, *)
(* ...) are left out.                                                      *)
(***************************************************************************)

\* A lookup that falls back on the first level instead of finding nothing.
getLevel_orFirst(doc, identifier) ==
    LET hits == {i \in 1..Len(doc.levels) : doc.levels[i].identifier = identifier}
    IN  IF hits = {}
        THEN IF Len(doc.levels) = 0 THEN NoValue ELSE doc.levels[1]
        ELSE doc.levels[CHOOSE i \in hits : \A j \in hits : i <= j]

\* this.data.levels.find(level => level.identifier === identifier)
getLevel(doc, identifier) ==
    LET hits == {i \in 1..Len(doc.levels) : doc.levels[i].identifier = identifier}
    IN  IF hits = {} THEN NoValue
        ELSE doc.levels[CHOOSE i \in hits : \A j \in hits : i <= j]

\* LDtkParser.getLevels(): one summary per level, in document order.
getLevels(doc) ==
    [i \in 1..Len(doc.levels) |->
        [identifier |-> doc.levels[i].identifier,
         layerCount |-> Len(doc.levels[i].layerInstances)]]

targetLayers == {"Collisions_baked", "Wall_shadows_baked", "Bg_textures_baked"}

\* Array.prototype.filter: the elements that satisfy Keep, in order.
FilterSeq(s, Keep(_)) ==
    LET idx == {i \in 1..Len(s) : Keep(s[i])}
        nth(k) == CHOOSE i \in idx : Cardinality({j \in idx : j <= i}) = k
    IN  [k \in 1..Cardinality(idx) |-> s[nth(k)]]

getTileLayers(doc, identifier) ==
    LET level == getLevel(doc, identifier)
    IN  IF level = NoValue \/ "layerInstances" \notin DOMAIN level THEN << >>
        ELSE LET kept == FilterSeq(level.layerInstances,
                                   LAMBDA layer : layer.identifier \in targetLayers)
             IN  [i \in 1..Len(kept) |->
                     [identifier |-> kept[i].identifier,
                      tilesetDefUid |-> kept[i].tilesetDefUid,
                      gridTiles |-> IF "gridTiles" \in DOMAIN kept[i]
                                    THEN kept[i].gridTiles ELSE << >>]]

getTilesets(doc) ==
    [i \in 1..Len(doc.tilesets) |->
        [identifier |-> doc.tilesets[i].identifier,
         uid |-> doc.tilesets[i].uid,
         tileGridSize |-> doc.tilesets[i].tileGridSize]]

\* tilesets.find(tileset => tileset.uid === uid)
getTilesetByUid(doc, uid) ==
    LET tilesets == getTilesets(doc)
        hits == {i \in 1..Len(tilesets) : tilesets[i].uid = uid}
    IN  IF hits = {} THEN NoValue
        ELSE tilesets[CHOOSE i \in hits : \A j \in hits : i <= j]

\* !tile.px || !tile.src || tile.f === undefined
InvalidTile(tile) ==
    "px" \notin DOMAIN tile \/ "src" \notin DOMAIN tile \/ "f" \notin DOMAIN tile

processedTile(tile) ==
    [px |-> tile.px, src |-> tile.src, f |-> tile.f,
     gridPos |-> pixelToGrid(tile.px, DefaultGridSize),
     flipFlags |-> extractFlipFlags(tile.f)]

compareTiles_xFirst(a, b) ==
    IF a.gridPos[1] # b.gridPos[1]
    THEN a.gridPos[1] - b.gridPos[1]
    ELSE a.gridPos[2] - b.gridPos[2]

\* The comparator given to processedTiles.sort.
compareTiles(a, b) ==
    IF a.gridPos[2] # b.gridPos[2]
    THEN a.gridPos[2] - b.gridPos[2]
    ELSE a.gridPos[1] - b.gridPos[1]

\* Array.prototype.sort is stable: t goes after every element that does not
\* compare greater than it.
RECURSIVE InsertSorted(_, _)
InsertSorted(sorted, t) ==
    IF sorted = << >> THEN <<t>>
    ELSE IF compareTiles(Head(sorted), t) <= 0
         THEN <<Head(sorted)>> \o InsertSorted(Tail(sorted), t)
         ELSE <<t>> \o sorted

RECURSIVE SortTiles(_)
SortTiles(tiles) ==
    IF tiles = << >> THEN << >>
    ELSE InsertSorted(SortTiles(SubSeq(tiles, 1, Len(tiles) - 1)), tiles[Len(tiles)])

processGridTiles_dedupe(gridTiles) ==
    LET valid == FilterSeq(gridTiles, LAMBDA tile : ~InvalidTile(tile))
        cell(i) == pixelToGrid(valid[i].px, DefaultGridSize)
        first == {i \in 1..Len(valid) : \A j \in 1..(i - 1) : cell(j) # cell(i)}
        kept == FilterSeq([i \in 1..Len(valid) |-> [i |-> i, tile |-> valid[i]]],
                          LAMBDA e : e.i \in first)
    IN  [tiles |-> SortTiles([i \in 1..Len(kept) |-> processedTile(kept[i].tile)]),
         log |-> << >>]

\* A processing that gives up on the layer's tiles at a malformed record.
processGridTiles_failOnInvalid(gridTiles) ==
    IF \E i \in 1..Len(gridTiles) : InvalidTile(gridTiles[i])
    THEN [tiles |-> << >>, log |-> <<LogWarning("invalid_tile", gridTiles)>>]
    ELSE [tiles |-> SortTiles([i \in 1..Len(gridTiles) |-> processedTile(gridTiles[i])]),
          log |-> << >>]

\* processGridTiles(gridTiles, tilesetUid): the processed tiles and what was
\* logged.  tilesetUid is never read.
processGridTiles(gridTiles) ==
    LET valid == FilterSeq(gridTiles, LAMBDA tile : ~InvalidTile(tile))
        invalid == FilterSeq(gridTiles, InvalidTile)
    IN  [tiles |-> SortTiles([i \in 1..Len(valid) |-> processedTile(valid[i])]),
         log |-> [i \in 1..Len(invalid) |-> LogWarning("invalid_tile", invalid[i])]]

\* options.includeX !== false: an absent option is not false.
OptionNotFalse(opts, name) == ~(name \in DOMAIN opts /\ opts[name] = FALSE)

LayerIncluded_absentExcludes(layer, opts) ==
    CASE layer.identifier = "Collisions_baked" ->
            "includeCollisions" \in DOMAIN opts /\ opts["includeCollisions"]
      [] layer.identifier = "Wall_shadows_baked" ->
            "includeShadows" \in DOMAIN opts /\ opts["includeShadows"]
      [] layer.identifier = "Bg_textures_baked" ->
            "includeBackground" \in DOMAIN opts /\ opts["includeBackground"]
      [] OTHER -> FALSE

\* A filter in which the options of the request before, kept by the
\* parser, prevail over those of the request.
LayerIncluded_previousOptions(layer, opts) ==
    CASE layer.identifier = "Collisions_baked" ->
            OptionNotFalse(options @@ opts, "includeCollisions")
      [] layer.identifier = "Wall_shadows_baked" ->
            OptionNotFalse(options @@ opts, "includeShadows")
      [] layer.identifier = "Bg_textures_baked" ->
            OptionNotFalse(options @@ opts, "includeBackground")
      [] OTHER -> FALSE

\* The switch of convertLevel's filter.
LayerIncluded(layer, opts) ==
    CASE layer.identifier = "Collisions_baked" -> OptionNotFalse(opts, "includeCollisions")
      [] layer.identifier = "Wall_shadows_baked" -> OptionNotFalse(opts, "includeShadows")
      [] layer.identifier = "Bg_textures_baked" -> OptionNotFalse(opts, "includeBackground")
      [] OTHER -> FALSE

filteredLayers(doc, identifier, opts) ==
    FilterSeq(getTileLayers(doc, identifier), LAMBDA layer : LayerIncluded(layer, opts))

\* One iteration of convertLevel's loop over the filtered layers: the layer
\* data pushed (none when the layer is skipped) and what was logged.
convertLayer(doc, layer) ==
    LET tileset == getTilesetByUid(doc, layer.tilesetDefUid)
        Pushed(processed) ==
            [pushed |-> <<[identifier |-> layer.identifier,
                           tileset |-> tileset,
                           tiles |-> processed.tiles,
                           tileCount |-> Len(processed.tiles),
                           config |-> getLayerConfig(layer.identifier)]>>,
             log |-> processed.log]
    IN  IF tileset = NoValue
        THEN [pushed |-> << >>,
              log |-> <<LogWarning("tileset_not_found", layer.identifier)>>]
        ELSE IF ~validateTileset(tileset).isValid
        THEN [pushed |-> << >>,
              log |-> <<LogWarning("skipping_layer", layer.identifier)
                          @@ [message |-> validateTileset(tileset).message]>>]
        ELSE Pushed(processGridTiles(layer.gridTiles))

RECURSIVE convertLayers(_, _)
convertLayers(doc, layers) ==
    LET Join(first, rest) ==
            [layers |-> first.pushed \o rest.layers, log |-> first.log \o rest.log]
    IN  IF layers = << >> THEN [layers |-> << >>, log |-> << >>]
        ELSE Join(convertLayer(doc, Head(layers)), convertLayers(doc, Tail(layers)))

\* LDtkParser.convertLevel(levelIdentifier, options): what it throws or
\* returns, and what it logs on the way.
convertLevel(doc, identifier, opts) ==
    LET level == getLevel(doc, identifier)
        Returned(done) ==
            [threw |-> FALSE,
             value |-> [level |-> [identifier |-> level.identifier],
                        layers |-> done.layers,
                        tilesets |-> getTilesets(doc)],
             log |-> done.log]
    IN  IF level = NoValue
        THEN [threw |-> TRUE, error |-> "Level not found", log |-> << >>]
        ELSE Returned(convertLayers(doc, filteredLayers(doc, identifier, opts)))

---------------------------------------------------------------------------
(***************************************************************************)
(* js/tscnGenerator.js                                                     *)
(***************************************************************************)

Letters ==
    {"a", "b", "c", "d", "e", "f", "g", "h", "i", "j", "k", "l", "m",
     "n", "o", "p", "q", "r", "s", "t", "u", "v", "w", "x", "y", "z",
     "A", "B", "C", "D", "E", "F", "G", "H", "I", "J", "K", "L", "M",
     "N", "O", "P", "Q", "R", "S", "T", "U", "V", "W", "X", "Y", "Z"}
Digits == {"0", "1", "2", "3", "4", "5", "6", "7", "8", "9"}

\* The replacement alone, with no leading '_' added.
sanitizeNodeName_noPrefix(name) ==
    [i \in 1..Len(name) |->
        IF name[i] \in Letters \cup Digits \cup {"_"} THEN name[i] ELSE "_"]

\* name.replace(/[^a-zA-Z0-9_]/g, '_'), then a leading '_' unless the result
\* starts with a letter or an underscore.
sanitizeNodeName(name) ==
    LET replaced == [i \in 1..Len(name) |->
                        IF name[i] \in Letters \cup Digits \cup {"_"}
                        THEN name[i] ELSE "_"]
    IN  IF replaced # << >> /\ replaced[1] \in Letters \cup {"_"}
        THEN replaced
        ELSE <<"_">> \o replaced

\* layer.tileset.tileGridSize || 16
tileGridSizeOf(layer) ==
    IF "tileGridSize" \in DOMAIN layer.tileset /\ layer.tileset.tileGridSize # 0
    THEN layer.tileset.tileGridSize
    ELSE FallbackTileGridSize

\* The body of generateTileData's loop: the triplet pushed for one tile and
\* what handleRotatedTile logged.
tileTriplet(layer, tile) ==
    LET pos == gridToGodotPosition(tile.gridPos[1], tile.gridPos[2])
        tileGridSize == tileGridSizeOf(layer)
        atlasX == Floor(tile.src[1], tileGridSize)
        atlasY == Floor(tile.src[2], tileGridSize)
        rotated == handleRotatedTile(atlasX, atlasY, tile.flipFlags)
        source == ldtkSourceToGodotSource(rotated.tile.atlasX * tileGridSize,
                                          rotated.tile.atlasY * tileGridSize,
                                          layer.tileset.uid)
        alternative == getAlternativeTileId(tile.flipFlags, rotated.tile.atlasX,
                                            rotated.tile.atlasY)
    IN  [triplet |-> <<pos, source, alternative>>, log |-> rotated.log]

RECURSIVE generateTileDataFrom(_, _)
generateTileDataFrom(layer, tiles) ==
    LET Join(first, rest) ==
            [data |-> first.triplet \o rest.data, log |-> first.log \o rest.log]
    IN  IF tiles = << >> THEN [data |-> << >>, log |-> << >>]
        ELSE Join(tileTriplet(layer, Head(tiles)),
                  generateTileDataFrom(layer, Tail(tiles)))

generateTileData(layer) == generateTileDataFrom(layer, layer.tiles)

\* A node that carries its z_index line whatever the configured value.
generateTileMapNode_alwaysZIndex(layer, layerIndex) ==
    LET config == layer.config
        fixed == [name |-> sanitizeNodeName(config.name), type |-> "TileMap",
                  parent |-> ".", texture_filter |-> 1,
                  tile_set |-> <<1, "_tileset">>, format |-> 2]
        modulate == IF config.modulate # ColorWhite
                    THEN [modulate |-> config.modulate] ELSE << >>
        Lines(tileData) ==
            [node |-> fixed @@ modulate @@ [z_index |-> config.zIndex] @@
                      (IF Len(tileData.data) > 0
                       THEN [tile_data |-> tileData.data] ELSE << >>),
             log |-> tileData.log]
    IN  Lines(generateTileData(layer))

\* The lines of one TileMap node; an optional line is an optional field.
generateTileMapNode(layer, layerIndex) ==
    LET config == layer.config
        fixed == [name |-> sanitizeNodeName(config.name), type |-> "TileMap",
                  parent |-> ".", texture_filter |-> 1,
                  tile_set |-> <<1, "_tileset">>, format |-> 2]
        modulate == IF config.modulate # ColorWhite
                    THEN [modulate |-> config.modulate] ELSE << >>
        zIndex == IF config.zIndex # 0 THEN [z_index |-> config.zIndex] ELSE << >>
        Lines(tileData) ==
            [node |-> fixed @@ modulate @@ zIndex @@
                      (IF Len(tileData.data) > 0
                       THEN [tile_data |-> tileData.data] ELSE << >>),
             log |-> tileData.log]
    IN  Lines(generateTileData(layer))

\* A header that counts two load steps for every layer.
generateHeader_perLayer(layers) == [load_steps |-> Len(layers) * 2 + 1, format |-> 3]

\* new Set(layers.map(layer => layer.tileset.identifier)).size * 2 + 1
generateHeader(layers) ==
    [load_steps |-> Cardinality({layers[i].tileset.identifier : i \in 1..Len(layers)}) * 2 + 1,
     format |-> 3]

\* Resources that all carry the ids of the first tileset.
RECURSIVE externalResourcesFrom_sameId(_, _, _)
externalResourcesFrom_sameId(layers, processedTilesets, resourceId) ==
    IF layers = << >> THEN << >>
    ELSE LET id == Head(layers).tileset.identifier
         IN  IF id \in processedTilesets
             THEN externalResourcesFrom_sameId(Tail(layers), processedTilesets, resourceId)
             ELSE <<[type |-> "Texture2D", path |-> getTextureResourcePath(id),
                     id |-> <<resourceId, "_texture">>],
                    [type |-> "TileSet", path |-> getTilesetResourcePath(id),
                     id |-> <<resourceId, "_tileset">>]>>
                  \o externalResourcesFrom_sameId(Tail(layers), processedTilesets \cup {id},
                                                  resourceId)

RECURSIVE externalResourcesFrom(_, _, _)
externalResourcesFrom(layers, processedTilesets, resourceId) ==
    IF layers = << >> THEN << >>
    ELSE LET id == Head(layers).tileset.identifier
         IN  IF id \in processedTilesets
             THEN externalResourcesFrom(Tail(layers), processedTilesets, resourceId)
             ELSE <<[type |-> "Texture2D", path |-> getTextureResourcePath(id),
                     id |-> <<resourceId, "_texture">>],
                    [type |-> "TileSet", path |-> getTilesetResourcePath(id),
                     id |-> <<resourceId, "_tileset">>]>>
                  \o externalResourcesFrom(Tail(layers), processedTilesets \cup {id},
                                           resourceId + 1)

generateExternalResources(layers) == externalResourcesFrom(layers, {}, 1)

generateRootNode(level) ==
    [name |-> sanitizeNodeName(level.identifier), type |-> "Node2D"]

\* The TileMap nodes pushed in the reverse of the order of the layers.
RECURSIVE tileMapNodesFrom_reversed(_, _)
tileMapNodesFrom_reversed(layers, i) ==
    LET Join(first, rest) ==
            [nodes |-> rest.nodes \o <<first.node>>, log |-> first.log \o rest.log]
    IN  IF i > Len(layers) THEN [nodes |-> << >>, log |-> << >>]
        ELSE Join(generateTileMapNode(layers[i], i - 1),
                  tileMapNodesFrom_reversed(layers, i + 1))

RECURSIVE tileMapNodesFrom(_, _)
tileMapNodesFrom(layers, i) ==
    LET Join(first, rest) ==
            [nodes |-> <<first.node>> \o rest.nodes, log |-> first.log \o rest.log]
    IN  IF i > Len(layers) THEN [nodes |-> << >>, log |-> << >>]
        ELSE Join(generateTileMapNode(layers[i], i - 1), tileMapNodesFrom(layers, i + 1))

\* The document, as its parts in order: header, external resources, nodes.
\* The uid strings are random and left out.
buildTSCNStructure(level, layers) ==
    LET Parts(tileMaps) ==
            [text |-> [header |-> generateHeader(layers),
                       externalResources |-> generateExternalResources(layers),
                       nodes |-> <<generateRootNode(level)>> \o tileMaps.nodes],
             log |-> tileMaps.log]
    IN  Parts(tileMapNodesFrom(layers, 1))

generateTSCN(convData) ==
    LET Returned(built) == [threw |-> FALSE, value |-> built.text, log |-> built.log]
    IN  IF Len(convData.layers) = 0
        THEN [threw |-> TRUE, error |-> "No layers to convert", log |-> << >>]
        ELSE Returned(buildTSCNStructure(convData.level, convData.layers))

\* A validation that lets an empty layer list through.
validateConversionData_acceptsEmpty(convData) ==
    [isValid |-> "level" \in DOMAIN convData, errors |-> << >>]

\* TSCNGenerator.validateConversionData(conversionData)
validateConversionData(convData) ==
    LET missingLevel ==
            IF "level" \in DOMAIN convData THEN << >> ELSE <<"Missing level data">>
        noLayers ==
            IF Len(convData.layers) = 0 THEN <<"No layers to convert">> ELSE << >>
        incomplete ==
            IF \E i \in 1..Len(convData.layers) :
                   \/ "tileset" \notin DOMAIN convData.layers[i]
                   \/ "tiles" \notin DOMAIN convData.layers[i]
            THEN <<"Layer missing data">> ELSE << >>
        errors == missingLevel \o noLayers \o incomplete
    IN  [isValid |-> Len(errors) = 0, errors |-> errors]

RECURSIVE totalTilesOf(_)
totalTilesOf(layers) ==
    IF layers = << >> THEN 0 ELSE Len(Head(layers).tiles) + totalTilesOf(Tail(layers))

\* TSCNGenerator.generatePreview(conversionData)
generatePreview(convData) ==
    [levelName |-> convData.level.identifier,
     totalTiles |-> totalTilesOf(convData.layers),
     layerCount |-> Len(convData.layers)]

TscnSuffix == <<".", "t", "s", "c", "n">>

\* TSCNGenerator.generateFilename(levelIdentifier); nothing calls it.
generateFilename(identifier) ==
    [i \in 1..Len(identifier) |->
        IF identifier[i] \in Letters \cup Digits \cup {"_", "-"}
        THEN identifier[i] ELSE "_"] \o TscnSuffix

---------------------------------------------------------------------------
(***************************************************************************)
(* uiManager.js and main.js: the state after construction.                 *)
(***************************************************************************)

EmptyName == << >>      \* the empty string, as a name

\* UIManager's constructor and LDtkTSCNConverter's: nothing loaded, nothing
\* selected, no stored result, nothing suspended.  The level selector holds
\* only its placeholder option, whose value is the empty string.
AppConstructed ==
    /\ uiState = [fileLoaded |-> FALSE, levelSelected |-> FALSE, converting |-> FALSE]
    /\ levelSelect = [options |-> {}, value |-> EmptyName, shown |-> FALSE]
    /\ fileStatus = [type |-> "default", message |-> ""]
    /\ currentData = NoValue
    /\ storedResult = NoValue
    /\ outputShown = FALSE
    /\ pendingReads = EmptyBag
    /\ timers = << >>
    /\ downloaded = NoValue

\* Utils.pixelToGrid is not called on its own: its arguments never change.
GridIdle == pixel = <<0, 0>> /\ gridSize = DefaultGridSize /\ gridPos = << >>

\* The browser refuses access to its storage: setItem throws, and
\* createBackup catches it.
NoStorage == [available |-> FALSE, keys |-> {}]

\* No record is kept of the conversions made.
NoHistory == [recording |-> FALSE, outputs |-> {}, again |-> {}]

\* The application is not part of the run: its state never changes.
AppIdle ==
    /\ AppConstructed
    /\ convertBtnDisabled = TRUE
    /\ localStorage = NoStorage
    /\ history = NoHistory

---------------------------------------------------------------------------
(***************************************************************************)
(* The calls of the pipeline, as main.js makes them: parser.convertLevel,  *)
(* then generator.generateTSCN on what it returned.                        *)
(***************************************************************************)

ParserConvertLevel ==
    /\ pc = "loaded"
    /\ LET Settle(r) ==
               /\ conversionData' = IF r.threw THEN NoValue ELSE r.value
               /\ thrown' = IF r.threw THEN r.error ELSE NoError
               /\ console' = r.log
               /\ pc' = IF r.threw THEN "failed" ELSE "converted"
       IN  Settle(convertLevel(data, levelIdentifier, options))
    /\ UNCHANGED <<data, levelIdentifier, options, tscn, codecVars, appVars>>

GeneratorGenerateTSCN ==
    /\ pc = "converted"
    /\ LET Settle(r) ==
               /\ tscn' = IF r.threw THEN NoValue ELSE r.value
               /\ thrown' = IF r.threw THEN r.error ELSE NoError
               /\ console' = console \o r.log
               /\ pc' = IF r.threw THEN "failed" ELSE "generated"
       IN  Settle(generateTSCN(conversionData))
    /\ UNCHANGED <<data, levelIdentifier, options, conversionData, codecVars, appVars>>

PipelineNext == ParserConvertLevel \/ GeneratorGenerateTSCN

\* The state after construction and parseFile: nothing converted yet.
PipelineInit(docs, ids, optionSets) ==
    /\ data \in docs
    /\ levelIdentifier \in ids
    /\ options \in optionSets
    /\ conversionData = NoValue
    /\ tscn = NoValue
    /\ thrown = NoError
    /\ console = << >>
    /\ pc = "loaded"
    /\ gridX = 0 /\ gridY = 0 /\ position = NoValue
    /\ GridIdle
    /\ AppIdle

(***************************************************************************)
(* Inputs.                                                                 *)
(***************************************************************************)
LevelName == <<"L", "0">>
OtherLevelName == <<"L", "1">>

SunnyLandDef(tileGridSize) ==
    [identifier |-> SupportedTileset, uid |-> SunnyLandUid, tileGridSize |-> tileGridSize]
ClassicDef == [identifier |-> "ClassicAutoTiles", uid |-> 5, tileGridSize |-> 16]

\* A document with one level holding the given layer instances.
OneLevelDoc(layerInstances, tilesets) ==
    [levels |-> <<[identifier |-> LevelName, layerInstances |-> layerInstances]>>,
     tilesets |-> tilesets]

\* Sequences over S of length at most n.
SeqUpTo(S, n) == UNION {[1..k -> S] : k \in 0..n}

\* Every way to give, or not give, each of the three inclusion options.
OptionNames == {"includeCollisions", "includeShadows", "includeBackground"}
AllOptions == UNION {[names -> BOOLEAN] : names \in SUBSET OptionNames}

---------------------------------------------------------------------------
(***************************************************************************)
(* SpecCodec: Utils.gridToGodotPosition on grid coordinates around both    *)
(* ends of the column range 0..65535.                                      *)
(***************************************************************************)
GridXs == (-1..MaxCoord) \cup ((65535 - MaxCoord)..65536)
GridYs == (-1..MaxCoord) \cup {255, 4095, 32766}

CodecInit ==
    /\ gridX \in GridXs
    /\ gridY \in GridYs
    /\ position = NoValue
    /\ GridIdle
    /\ pc = "codec"
    /\ data = NoValue /\ levelIdentifier = << >> /\ options = << >>
    /\ conversionData = NoValue /\ tscn = NoValue
    /\ thrown = NoError /\ console = << >>
    /\ AppIdle

EncodePosition ==
    /\ pc = "codec"
    /\ position' = gridToGodotPosition(gridX, gridY)
    /\ pc' = "encoded"
    /\ UNCHANGED <<gridX, gridY, pixel, gridSize, gridPos, pipelineVars, appVars>>

SpecCodec == CodecInit /\ [][EncodePosition]_vars

(***************************************************************************)
(* SpecGrid: Utils.pixelToGrid on pixels on both sides of the origin, then *)
(* on the corner pixel of the cell it answered.                            *)
(***************************************************************************)
PixelXs == (-(8 * MaxCoord + 1))..(8 * MaxCoord + 1)
PixelYs == {-17, -16, -1, 0, 15, 16, 33}
GridSizes == {1, 3, 8, 16}

GridInit ==
    /\ pixel \in PixelXs \X PixelYs
    /\ gridSize \in GridSizes
    /\ gridPos = << >>
    /\ pc = "pixel"
    /\ gridX = 0 /\ gridY = 0 /\ position = NoValue
    /\ data = NoValue /\ levelIdentifier = << >> /\ options = << >>
    /\ conversionData = NoValue /\ tscn = NoValue
    /\ thrown = NoError /\ console = << >>
    /\ AppIdle

\* Utils.pixelToGrid(px, gridSize)
PixelToGrid ==
    /\ pc \in {"pixel", "scaled"}
    /\ gridPos' = pixelToGrid(pixel, gridSize)
    /\ pc' = IF pc = "pixel" THEN "gridded" ELSE "regridded"
    /\ UNCHANGED <<pixel, gridSize, gridX, gridY, position, pipelineVars, appVars>>

\* The caller scales the cell back to the pixel of its corner.
ScaleBack ==
    /\ pc = "gridded"
    /\ pixel' = <<gridPos[1] * gridSize, gridPos[2] * gridSize>>
    /\ pc' = "scaled"
    /\ UNCHANGED <<gridSize, gridPos, gridX, gridY, position, pipelineVars, appVars>>

SpecGrid == GridInit /\ [][PixelToGrid \/ ScaleBack]_vars

(***************************************************************************)
(* SpecTile: a level with one Collisions_baked layer of one tile, over     *)
(* source pixels, flip masks and declared tile grid sizes.                 *)
(***************************************************************************)
SrcXs == {16 * k : k \in 0..MaxCoord} \cup {8, 24, 136}
SrcYs == {16 * k : k \in 0..MaxCoord} \cup {8, 24, 1048560}
TileGridSizes == {8, 16, 32}

TileDocs ==
    {OneLevelDoc(<<[identifier |-> "Collisions_baked",
                    tilesetDefUid |-> SunnyLandUid,
                    gridTiles |-> <<[px |-> <<16, 32>>, src |-> <<sx, sy>>, f |-> f]>>]>>,
                 <<SunnyLandDef(g)>>)
        : sx \in SrcXs, sy \in SrcYs, f \in 0..3, g \in TileGridSizes}

TileInit == PipelineInit(TileDocs, {LevelName}, {<< >>})

SpecTile == TileInit /\ [][PipelineNext]_vars

(***************************************************************************)
(* SpecLayer: a level with one Collisions_baked layer of up to MaxTiles    *)
(* tiles, in every order, under the supported tileset with grid size 16.   *)
(***************************************************************************)
TilePool ==
    {[px |-> <<0, 0>>, src |-> <<0, 0>>, f |-> 0],
     [px |-> <<16, 16>>, src |-> <<16, 16>>, f |-> 0],
     [px |-> <<16, 0>>, src |-> <<32, 32>>, f |-> 1],
     [px |-> <<0, 16>>, src |-> <<16, 0>>, f |-> 2],
     [px |-> <<17, 3>>, src |-> <<0, 16>>, f |-> 3],
     [px |-> <<16, 0>>, src |-> <<32, 32>>, f |-> 0],
     [px |-> <<32, 0>>, src |-> <<48, 16>>],
     [src |-> <<0, 0>>, f |-> 0],
     [px |-> <<0, 0>>, f |-> 1]}

LayerDocs ==
    {OneLevelDoc(<<[identifier |-> "Collisions_baked",
                    tilesetDefUid |-> SunnyLandUid,
                    gridTiles |-> tiles]>>,
                 <<SunnyLandDef(16)>>)
        : tiles \in SeqUpTo(TilePool, MaxTiles)}

LayerInit == PipelineInit(LayerDocs, {LevelName}, {<< >>})

SpecLayer == LayerInit /\ [][PipelineNext]_vars

(***************************************************************************)
(* SpecLevel: a level with up to MaxLayers layer instances over the        *)
(* recognized and an unrecognized identifier, each declaring a supported,  *)
(* an unsupported or an unknown tileset.                                   *)
(***************************************************************************)
LayerIdentifiers ==
    {"Collisions_baked", "Wall_shadows_baked", "Bg_textures_baked", "Entities"}

GridTilesOf(identifier) ==
    CASE identifier = "Collisions_baked" ->
            <<[px |-> <<16, 0>>, src |-> <<16, 16>>, f |-> 0],
              [px |-> <<0, 0>>, src |-> <<0, 0>>, f |-> 0]>>
      [] identifier = "Wall_shadows_baked" ->
            <<[px |-> <<0, 16>>, src |-> <<48, 16>>, f |-> 0],
              [src |-> <<0, 0>>, f |-> 0]>>
      [] identifier = "Bg_textures_baked" ->
            <<[px |-> <<32, 32>>, src |-> <<16, 0>>, f |-> 0]>>
      [] OTHER -> << >>

LevelLayerPool ==
    {[identifier |-> id, tilesetDefUid |-> uid, gridTiles |-> GridTilesOf(id)]
        : id \in LayerIdentifiers, uid \in {SunnyLandUid, 5, 9}}

LevelDocs ==
    {OneLevelDoc(layers, <<SunnyLandDef(16), ClassicDef>>)
        : layers \in SeqUpTo(LevelLayerPool, MaxLayers)}

LevelOptions == {<< >>, [includeShadows |-> FALSE]}

LevelInit == PipelineInit(LevelDocs, {LevelName}, LevelOptions)

SpecLevel == LevelInit /\ [][PipelineNext]_vars

(***************************************************************************)
(* SpecSelect: a level with up to MaxLayers layer instances, all under *)
(* the supported tileset, converted under every combination of options.    *)
(***************************************************************************)
SelectLayerPool ==
    {[identifier |-> id, tilesetDefUid |-> SunnyLandUid, gridTiles |-> GridTilesOf(id)]
        : id \in LayerIdentifiers}

SelectDocs ==
    {OneLevelDoc(layers, <<SunnyLandDef(16), ClassicDef>>)
        : layers \in SeqUpTo(SelectLayerPool, MaxLayers)}

SelectInit == PipelineInit(SelectDocs, {LevelName}, AllOptions)

SpecSelect == SelectInit /\ [][PipelineNext]_vars

(***************************************************************************)
(* SpecNode: a level with up to MaxLayers layer instances over the three   *)
(* recognized identifiers, each with no tile, only a malformed tile, one   *)
(* tile or two tiles, under the supported tileset.                         *)
(***************************************************************************)
NodeGridTiles ==
    {<< >>,
     <<[src |-> <<0, 0>>, f |-> 0]>>,
     <<[px |-> <<16, 0>>, src |-> <<16, 16>>, f |-> 0]>>,
     <<[px |-> <<16, 16>>, src |-> <<48, 16>>, f |-> 0],
       [px |-> <<0, 0>>, src |-> <<0, 0>>, f |-> 1]>>}

NodeLayerPool ==
    {[identifier |-> id, tilesetDefUid |-> SunnyLandUid, gridTiles |-> tiles]
        : id \in targetLayers, tiles \in NodeGridTiles}

NodeDocs ==
    {OneLevelDoc(layers, <<SunnyLandDef(16)>>) : layers \in SeqUpTo(NodeLayerPool, MaxLayers)}

NodeInit == PipelineInit(NodeDocs, {LevelName}, {<< >>})

SpecNode == NodeInit /\ [][PipelineNext]_vars

(***************************************************************************)
(* SpecTileset: a level of up to MaxLayers collision layers over two       *)
(* tileset definitions, each under any of six identifiers.                 *)
(***************************************************************************)
TilesetIdentifiers ==
    {"SunnyLand_by_Ansimuz", "ClassicAutoTiles", "Internal_Icons",
     "sunnyland_by_ansimuz", "SunnyLand_by_Ansimuz_v2", ""}

TilesetDocs ==
    {OneLevelDoc(layers,
                 <<[identifier |-> first, uid |-> SunnyLandUid, tileGridSize |-> 16],
                   [identifier |-> second, uid |-> 5, tileGridSize |-> 16]>>)
        : layers \in SeqUpTo({[identifier |-> "Collisions_baked", tilesetDefUid |-> uid,
                               gridTiles |-> GridTilesOf("Collisions_baked")]
                                 : uid \in {SunnyLandUid, 5}},
                             MaxLayers),
          first \in TilesetIdentifiers, second \in TilesetIdentifiers}

TilesetInit == PipelineInit(TilesetDocs, {LevelName}, {<< >>})

SpecTileset == TilesetInit /\ [][PipelineNext]_vars

(***************************************************************************)
(* SpecName: a level whose identifier is any string of up to MaxNameLen    *)
(* characters, with one layer, converted and assembled.                    *)
(***************************************************************************)
NameChars == {"a", "Z", "7", "_", "-", " "}

NamedLevelDoc(name) ==
    [levels |-> <<[identifier |-> name,
                   layerInstances |->
                       <<[identifier |-> "Collisions_baked",
                          tilesetDefUid |-> SunnyLandUid,
                          gridTiles |-> GridTilesOf("Collisions_baked")]>>]>>,
     tilesets |-> <<SunnyLandDef(16)>>]

NameInit ==
    /\ levelIdentifier \in SeqUpTo(NameChars, MaxNameLen)
    /\ data = NamedLevelDoc(levelIdentifier)
    /\ options = << >>
    /\ conversionData = NoValue
    /\ tscn = NoValue
    /\ thrown = NoError
    /\ console = << >>
    /\ pc = "loaded"
    /\ gridX = 0 /\ gridY = 0 /\ position = NoValue
    /\ GridIdle
    /\ AppIdle

SpecName == NameInit /\ [][PipelineNext]_vars

(***************************************************************************)
(* SpecGenerate: generateTSCN called on conversion data of up to MaxLayers *)
(* layers, each under one of three tilesets.                               *)
(***************************************************************************)
OtherDef == [identifier |-> "Green", uid |-> 9, tileGridSize |-> 16]

\* The layer data convertLevel pushes for a layer, here under any tileset.
GeneratedLayer(identifier, tileset) ==
    [identifier |-> identifier,
     tileset |-> tileset,
     tiles |-> processGridTiles(GridTilesOf(identifier)).tiles,
     tileCount |-> Len(processGridTiles(GridTilesOf(identifier)).tiles),
     config |-> getLayerConfig(identifier)]

GenerateLayerPool ==
    {GeneratedLayer(id, tileset)
        : id \in {"Collisions_baked", "Bg_textures_baked"},
          tileset \in {SunnyLandDef(16), ClassicDef, OtherDef}}

GenerateInit ==
    /\ conversionData \in
           {[level |-> [identifier |-> LevelName], layers |-> layers, tilesets |-> << >>]
               : layers \in SeqUpTo(GenerateLayerPool, MaxLayers)}
    /\ pc = "converted"
    /\ data = NoValue
    /\ levelIdentifier = LevelName
    /\ options = << >>
    /\ tscn = NoValue
    /\ thrown = NoError
    /\ console = << >>
    /\ gridX = 0 /\ gridY = 0 /\ position = NoValue
    /\ GridIdle
    /\ AppIdle

SpecGenerate == GenerateInit /\ [][GeneratorGenerateTSCN]_vars

---------------------------------------------------------------------------
(***************************************************************************)
(* The application: uiManager.js, main.js and fileHandler.js.              *)
(*                                                                         *)
(* A file is [ldtkName, content]: whether its name ends in .ldtk, and the  *)
(* document its text parses to (NoValue when the text is not JSON).        *)
(* loadFile suspends at its await until the file has been read; the two    *)
(* setTimeout callbacks share one delay and so run in the order they were  *)
(* scheduled.  Here pc names the handler that ran last.                    *)
(***************************************************************************)

\* UIManager.showProgress(message): the state it leaves.
showProgress(state) == [state EXCEPT !.converting = TRUE]

\* A hideProgress that leaves the flag as it is.
hideProgress_keepsFlag(state) == state

\* UIManager.hideProgress(): the state it leaves.
hideProgress(state) == [state EXCEPT !.converting = FALSE]

\* A button that stays enabled during a load or a conversion.
updateConvertButton_ignoresConverting(state) ==
    ~(state.fileLoaded /\ state.levelSelected)

\* UIManager.updateConvertButton(): the value it gives convertBtn.disabled.
updateConvertButton(state) ==
    ~(state.fileLoaded /\ state.levelSelected /\ ~state.converting)

\* Date.now() when createBackup builds its key: the clock never runs
\* backwards, so no earlier than the newest key in the store.
DateNow(store) ==
    IF store.available
    THEN {t \in 1..MaxClock : \A k \in store.keys : t >= k}
    ELSE {0}

\* FileHandler.createBackup(filename, content): setItem under the key
\* ldtk2tscn_backup_<now>, which replaces an entry with the same key.
createBackup(store, now) ==
    IF store.available THEN [store EXCEPT !.keys = @ \cup {now}] ELSE store

\* FileHandler.clearOldBackups(): beyond 5 backup keys, all but the last
\* 5 of the sorted keys are removed.  Keys of one length sort as their
\* timestamps do.
clearOldBackups(store) ==
    IF store.available /\ Cardinality(store.keys) > BackupsKept
    THEN [store EXCEPT !.keys =
             {k \in @ : Cardinality({j \in store.keys : j > k}) < BackupsKept}]
    ELSE store

\* What a conversion adds to the record of conversions: its request with
\* the identifiers of the layers it selected and its tile_data arrays, and
\* the request once more when it was converted before and a conversion of
\* another level or with other options was asked for since.
Recorded(hist, request, previousIdentifier, previousOpts, converted, generated) ==
    IF hist.recording
    THEN [outputs |-> hist.outputs \cup
             {[request |-> request,
               layers |-> [k \in 1..Len(converted.layers) |->
                              converted.layers[k].identifier],
               tileData |-> [k \in 1..Len(converted.layers) |->
                                IF "tile_data" \in DOMAIN generated.nodes[k + 1]
                                THEN generated.nodes[k + 1].tile_data ELSE << >>]]},
          again |-> IF /\ \E o \in hist.outputs : o.request = request
                       /\ (request.identifier # previousIdentifier
                             \/ request.opts # previousOpts)
                    THEN hist.again \cup {request} ELSE hist.again,
          recording |-> TRUE]
    ELSE hist

\* FileHandler.validateLDtkContent(content)
validateLDtkContent(content) ==
    IF content = NoValue
    THEN [isValid |-> FALSE, error |-> "Invalid JSON"]
    ELSE IF Len(content.levels) = 0
    THEN [isValid |-> FALSE, error |-> "No levels found in the file"]
    ELSE IF \A i \in 1..Len(content.tilesets) :
                content.tilesets[i].identifier # SupportedTileset
    THEN [isValid |-> FALSE, error |-> "No supported tilesets found"]
    ELSE [isValid |-> TRUE, error |-> NoError]

\* UIManager.handleFileSelect(file), up to the await inside the loadFile it
\* starts: a file with another extension is refused, any other file sets
\* the progress state and leaves its load suspended.
HandleFileSelect(file) ==
    /\ IF file = NoValue
       THEN /\ fileStatus' = [type |-> "default", message |-> "No file selected"]
            /\ UNCHANGED <<uiState, convertBtnDisabled, pendingReads>>
       ELSE IF ~file.ldtkName
       THEN /\ fileStatus' = [type |-> "error", message |-> "Please select a .ldtk file"]
            /\ UNCHANGED <<uiState, convertBtnDisabled, pendingReads>>
       ELSE /\ BagCardinality(pendingReads) + Len(timers) < MaxInFlight
            /\ fileStatus' = [type |-> "loading", message |-> "Loading"]
            /\ uiState' = showProgress(uiState)
            /\ convertBtnDisabled' =
                   updateConvertButton(showProgress(uiState))
            /\ pendingReads' = pendingReads (+) SetToBag({file})
    /\ pc' = "handleFileSelect"
    /\ UNCHANGED <<levelSelect, currentData, storedResult, outputShown, timers,
                   downloaded, localStorage, history, pipelineVars, codecVars>>

\* LDtkTSCNConverter.loadFile(file) from its await to its end, for one of
\* the suspended loads: validate and parse the content, schedule onFileLoaded;
\* on an error show it and forget the current document.
LoadFileResumes(file) ==
    /\ BagIn(file, pendingReads)
    /\ LET Settle(content, validation) ==
               IF validation.isValid
               THEN /\ data' = content
                    /\ currentData' = content
                    /\ timers' = Append(timers, [callback |-> "onFileLoaded",
                                                 levels |-> getLevels(content)])
                    /\ thrown' = NoError
                    /\ \E now \in DateNow(localStorage) :
                           localStorage' = createBackup(localStorage, now)
                    /\ UNCHANGED <<uiState, convertBtnDisabled, fileStatus>>
               ELSE /\ uiState' = hideProgress(uiState)
                    /\ convertBtnDisabled' =
                           updateConvertButton(hideProgress(uiState))
                    /\ fileStatus' = [type |-> "error", message |-> validation.error]
                    /\ currentData' = NoValue
                    /\ thrown' = validation.error
                    /\ UNCHANGED <<data, timers, localStorage>>
       IN  Settle(file.content, validateLDtkContent(file.content))
    /\ pendingReads' = pendingReads (-) SetToBag({file})
    /\ pc' = "loadFile"
    /\ UNCHANGED <<levelSelect, storedResult, outputShown, downloaded, history,
                   levelIdentifier, options, conversionData, tscn, console,
                   codecVars>>

\* The oldest setTimeout callback runs: hideProgress, then onFileLoaded or
\* showResults.
TimerFires ==
    /\ timers # << >>
    /\ LET Run(timer, state) ==
               IF timer.callback = "onFileLoaded"
               THEN /\ uiState' = [state EXCEPT !.fileLoaded = TRUE]
                    /\ convertBtnDisabled' =
                           updateConvertButton([state EXCEPT !.fileLoaded = TRUE])
                    /\ fileStatus' = [type |-> "success", message |-> "File loaded successfully"]
                    /\ levelSelect' =
                           [options |-> {timer.levels[k].identifier :
                                            k \in 1..Len(timer.levels)},
                            value |-> EmptyName,
                            shown |-> TRUE]
                    /\ UNCHANGED <<storedResult, outputShown>>
               ELSE /\ uiState' = state
                    /\ convertBtnDisabled' = updateConvertButton(state)
                    /\ storedResult' = [tscnContent |-> timer.tscnContent,
                                        filename |-> timer.preview.levelName]
                    /\ outputShown' = TRUE
                    /\ UNCHANGED <<fileStatus, levelSelect>>
       IN  Run(Head(timers), hideProgress(uiState))
    /\ timers' = Tail(timers)
    /\ pc' = "timer"
    /\ UNCHANGED <<currentData, pendingReads, downloaded, localStorage, history,
                   pipelineVars, codecVars>>

\* UIManager.handleLevelSelect(levelIdentifier), on the change event of the
\* level selector: the user picks another of its options.
HandleLevelSelect(value) ==
    /\ levelSelect.shown
    /\ value \in levelSelect.options \cup {EmptyName}
    /\ value # levelSelect.value
    /\ levelSelect' = [levelSelect EXCEPT !.value = value]
    /\ uiState' = [uiState EXCEPT !.levelSelected = (value # EmptyName)]
    /\ convertBtnDisabled' =
           updateConvertButton([uiState EXCEPT !.levelSelected = (value # EmptyName)])
    /\ pc' = "handleLevelSelect"
    /\ UNCHANGED <<fileStatus, currentData, storedResult, outputShown,
                   pendingReads, timers, downloaded, localStorage, history,
                   pipelineVars, codecVars>>

\* LDtkTSCNConverter.convertLevel(levelIdentifier, options): it has no await,
\* so it runs to its end; the results are shown by a timer.
AppConvertLevel(identifier, opts) ==
    /\ levelIdentifier' = identifier
    /\ options' = opts
    /\ pc' = "convertLevel"
    /\ LET Fail(message, log, returned) ==
               /\ uiState' = hideProgress(uiState)
               /\ convertBtnDisabled' =
                      updateConvertButton(hideProgress(uiState))
               /\ fileStatus' = [type |-> "error", message |-> message]
               /\ thrown' = message
               /\ conversionData' = returned
               /\ tscn' = NoValue
               /\ console' = log
               /\ UNCHANGED <<timers, history>>
           Succeed(converted, generated) ==
               /\ uiState' = showProgress(uiState)
               /\ convertBtnDisabled' =
                      updateConvertButton(showProgress(uiState))
               /\ timers' = Append(timers,
                                   [callback |-> "showResults",
                                    preview |-> generatePreview(converted.value),
                                    tscnContent |-> generated.value])
               /\ thrown' = NoError
               /\ conversionData' = converted.value
               /\ tscn' = generated.value
               /\ console' = converted.log \o generated.log
               /\ history' = Recorded(history, [doc |-> data, identifier |-> identifier,
                                                opts |-> opts],
                                      levelIdentifier, options,
                                      converted.value, generated.value)
               /\ UNCHANGED fileStatus
           Generate(converted, generated) ==
               IF generated.threw
               THEN Fail(generated.error, converted.log, converted.value)
               ELSE Succeed(converted, generated)
           Convert(converted) ==
               IF converted.threw
               THEN Fail(converted.error, converted.log, NoValue)
               ELSE IF ~validateConversionData(converted.value).isValid
               THEN Fail("Conversion validation failed", converted.log, converted.value)
               ELSE Generate(converted, generateTSCN(converted.value))
       IN  IF currentData = NoValue
           THEN Fail("No LDtk file loaded", << >>, NoValue)
           ELSE Convert(convertLevel(data, identifier, opts))
    /\ UNCHANGED <<data, levelSelect, currentData, storedResult, outputShown,
                   pendingReads, downloaded, localStorage, codecVars>>

\* UIManager.handleConvert(), on a click of the convert button (a disabled
\* button gets no click), with the options read from the three checkboxes.
HandleConvert(opts) ==
    /\ ~convertBtnDisabled
    /\ IF ~uiState.fileLoaded \/ ~uiState.levelSelected \/ uiState.converting
       THEN /\ pc' = "handleConvert"
            /\ UNCHANGED <<appVars, pipelineVars, codecVars>>
       ELSE /\ BagCardinality(pendingReads) + Len(timers) < MaxInFlight
            /\ AppConvertLevel(levelSelect.value, opts)

(***************************************************************************)
(* SpecApp: the page, with three project files and a text file to pick     *)
(* from.                                                                   *)
(***************************************************************************)
AppLayer(identifier, uid) ==
    [identifier |-> identifier, tilesetDefUid |-> uid,
     gridTiles |-> GridTilesOf(identifier)]

\* Two levels: one with a usable and an unusable layer, one with no tile
\* layer of interest.
AppDocA ==
    [levels |-> <<[identifier |-> LevelName,
                   layerInstances |-> <<AppLayer("Collisions_baked", SunnyLandUid),
                                        AppLayer("Wall_shadows_baked", 5)>>],
                  [identifier |-> OtherLevelName,
                   layerInstances |-> <<AppLayer("Entities", SunnyLandUid)>>]>>,
     tilesets |-> <<SunnyLandDef(16), ClassicDef>>]

AppDocB ==
    [levels |-> <<[identifier |-> LevelName,
                   layerInstances |-> <<AppLayer("Bg_textures_baked", SunnyLandUid)>>]>>,
     tilesets |-> <<SunnyLandDef(16)>>]

AppDocNoLevels == [levels |-> << >>, tilesets |-> <<SunnyLandDef(16)>>]

AppFiles ==
    {[ldtkName |-> TRUE, content |-> AppDocA],
     [ldtkName |-> TRUE, content |-> AppDocB],
     [ldtkName |-> TRUE, content |-> AppDocNoLevels],
     [ldtkName |-> FALSE, content |-> NoValue],
     NoValue}

\* UIManager.getConversionOptions(): the checkboxes always give all three.
AppOptions ==
    {[includeCollisions |-> c, includeShadows |-> TRUE, includeBackground |-> TRUE]
        : c \in BOOLEAN}

AppLevelValues == {EmptyName, LevelName, OtherLevelName}

\* The page after both constructors ran.  The button's disabled attribute
\* comes from the page markup, which the constructors do not touch.
PageInit(store, recorded) ==
    /\ AppConstructed
    /\ localStorage = store
    /\ history = recorded
    /\ convertBtnDisabled \in BOOLEAN
    /\ data = NoValue
    /\ levelIdentifier = EmptyName
    /\ options = << >>
    /\ conversionData = NoValue
    /\ tscn = NoValue
    /\ thrown = NoError
    /\ console = << >>
    /\ pc = "constructed"
    /\ gridX = 0 /\ gridY = 0 /\ position = NoValue
    /\ GridIdle

AppInit == PageInit(NoStorage, NoHistory)

AppNext ==
    \/ \E file \in AppFiles : HandleFileSelect(file)
    \/ \E file \in AppFiles : LoadFileResumes(file)
    \/ TimerFires
    \/ \E value \in AppLevelValues : HandleLevelSelect(value)
    \/ \E opts \in AppOptions : HandleConvert(opts)

SpecApp == AppInit /\ [][AppNext]_vars

\* UIManager.handleDownload(), on a click of the download button, which is
\* visible once the output section is shown.
HandleDownload ==
    /\ outputShown
    /\ IF storedResult # NoValue /\ storedResult.filename # EmptyName
       THEN downloaded' = [content |-> storedResult.tscnContent,
                           filename |-> storedResult.filename \o TscnSuffix]
       ELSE UNCHANGED downloaded
    /\ pc' = "handleDownload"
    /\ UNCHANGED <<uiState, levelSelect, convertBtnDisabled, fileStatus, currentData,
                   storedResult, outputShown, pendingReads, timers,
                   localStorage, history, pipelineVars, codecVars>>

(***************************************************************************)
(* SpecDownload: the page with project files of one level each, whose      *)
(* identifiers hold characters of every kind, and the download button.     *)
(***************************************************************************)
DownloadNames == {<<"a", " ", "7">>, <<"Z", "-", "_">>}

DownloadFiles == {[ldtkName |-> TRUE, content |-> NamedLevelDoc(name)] : name \in DownloadNames}

DownloadNext ==
    \/ \E file \in DownloadFiles : HandleFileSelect(file)
    \/ \E file \in DownloadFiles : LoadFileResumes(file)
    \/ TimerFires
    \/ \E value \in DownloadNames \cup {EmptyName} : HandleLevelSelect(value)
    \/ \E opts \in AppOptions : HandleConvert(opts)
    \/ HandleDownload

SpecDownload == AppInit /\ [][DownloadNext]_vars

\* LDtkTSCNConverter.reset(), which the page offers scripts as
\* window.app.reset(): the document is forgotten, the parser replaced, and
\* UIManager.reset() clears the state and hides the sections.  Suspended
\* loads, scheduled timers and the stored result stay as they are.
Reset ==
    /\ currentData' = NoValue
    /\ data' = NoValue
    /\ uiState' = [fileLoaded |-> FALSE, levelSelected |-> FALSE, converting |-> FALSE]
    /\ levelSelect' = [levelSelect EXCEPT !.value = EmptyName, !.shown = FALSE]
    /\ fileStatus' = [type |-> "default", message |-> "No file selected"]
    /\ outputShown' = FALSE
    /\ convertBtnDisabled' =
           updateConvertButton([fileLoaded |-> FALSE, levelSelected |-> FALSE,
                                converting |-> FALSE])
    /\ pc' = "reset"
    /\ UNCHANGED <<storedResult, pendingReads, timers, downloaded, localStorage,
                   history, levelIdentifier, options, conversionData, tscn,
                   thrown, console, codecVars>>

(***************************************************************************)
(* SpecUi: the page with a project file and a file without levels, every   *)
(* handler and reset.  FairSpecUi adds that a file read settles and that a *)
(* scheduled timer fires.                                                  *)
(***************************************************************************)
UiFiles ==
    {[ldtkName |-> TRUE, content |-> AppDocB],
     [ldtkName |-> TRUE, content |-> AppDocNoLevels],
     [ldtkName |-> FALSE, content |-> NoValue]}

UiNext ==
    \/ \E file \in UiFiles : HandleFileSelect(file)
    \/ \E file \in UiFiles : LoadFileResumes(file)
    \/ TimerFires
    \/ \E value \in AppLevelValues : HandleLevelSelect(value)
    \/ \E opts \in AppOptions : HandleConvert(opts)
    \/ HandleDownload
    \/ Reset

SpecUi == AppInit /\ [][UiNext]_vars

FairSpecUi ==
    /\ SpecUi
    /\ \A file \in UiFiles : WF_vars(LoadFileResumes(file))
    /\ WF_vars(TimerFires)

(***************************************************************************)
(* SpecRepeat: the page with one project file of one level, converted      *)
(* again and again with either setting of the collisions checkbox, every   *)
(* conversion recorded.                                                    *)
(***************************************************************************)
RepeatDoc ==
    [levels |-> <<[identifier |-> LevelName,
                   layerInstances |-> <<AppLayer("Collisions_baked", SunnyLandUid),
                                        AppLayer("Bg_textures_baked", SunnyLandUid)>>]>>,
     tilesets |-> <<SunnyLandDef(16), ClassicDef>>]

RepeatFiles == {[ldtkName |-> TRUE, content |-> RepeatDoc]}

RepeatInit == PageInit(NoStorage, [recording |-> TRUE, outputs |-> {}, again |-> {}])

RepeatNext ==
    \/ \E file \in RepeatFiles : HandleFileSelect(file)
    \/ \E file \in RepeatFiles : LoadFileResumes(file)
    \/ TimerFires
    \/ \E value \in AppLevelValues : HandleLevelSelect(value)
    \/ \E opts \in AppOptions : HandleConvert(opts)

SpecRepeat == RepeatInit /\ [][RepeatNext]_vars

(***************************************************************************)
(* SpecBackup: the page's file loads, with a browser storage that earlier  *)
(* sessions left up to 6 backups in; initialize has cleared the old ones.  *)
(***************************************************************************)
BackupFiles ==
    {[ldtkName |-> TRUE, content |-> AppDocB],
     [ldtkName |-> TRUE, content |-> AppDocNoLevels]}

BackupInit ==
    \E prior \in SUBSET (1..(BackupsKept + 1)) :
        PageInit(clearOldBackups([available |-> TRUE, keys |-> prior]), NoHistory)

BackupNext ==
    \/ \E file \in BackupFiles : HandleFileSelect(file)
    \/ \E file \in BackupFiles : LoadFileResumes(file)
    \/ TimerFires

SpecBackup == BackupInit /\ [][BackupNext]_vars

---------------------------------------------------------------------------
(***************************************************************************)
(* What the properties below read off the state.                           *)
(***************************************************************************)

\* Bit n of a non-negative integer.
BitSet(v, n) == (v \div (2 ^ n)) % 2 = 1

\* The layer_0/tile_data array of a node; empty when the node has no such line.
TileDataOf(node) == IF "tile_data" \in DOMAIN node THEN node.tile_data ELSE << >>

\* The j-th triplet of a tile_data array.
TripletAt(td, j) == <<td[3 * j - 2], td[3 * j - 1], td[3 * j]>>

\* The level the request names (when there is one) and its layer instances.
RequestedLevel ==
    data.levels[CHOOSE i \in 1..Len(data.levels) :
                    data.levels[i].identifier = levelIdentifier]
InputLayers == RequestedLevel.layerInstances

\* The grid tiles of the level's only layer.
InputTiles == InputLayers[1].gridTiles

WellFormed(tile) == {"px", "src", "f"} \subseteq DOMAIN tile

\* The layers the options select, stated from the specification.
OptionExplicitlyFalse(name) == name \in DOMAIN options /\ options[name] = FALSE
Selected(layer) ==
    \/ layer.identifier = "Collisions_baked" /\ ~OptionExplicitlyFalse("includeCollisions")
    \/ layer.identifier = "Wall_shadows_baked" /\ ~OptionExplicitlyFalse("includeShadows")
    \/ layer.identifier = "Bg_textures_baked" /\ ~OptionExplicitlyFalse("includeBackground")
SelectedLayers == FilterSeq(InputLayers, Selected)

\* The layer's tileset UID names a definition, and it is the supported one.
TilesetUsable(layer) ==
    \E i \in 1..Len(data.tilesets) :
        /\ data.tilesets[i].uid = layer.tilesetDefUid
        /\ \A j \in 1..(i - 1) : data.tilesets[j].uid # layer.tilesetDefUid
        /\ data.tilesets[i].identifier = "SunnyLand_by_Ansimuz"
UsableLayers == FilterSeq(SelectedLayers, TilesetUsable)

(***************************************************************************)
(* C1..C10                                                                 *)
(***************************************************************************)

\* C1: for every tile of every emitted layer, the source integer written to
\* tile_data is floor(srcX / tileGridSize) * 65536: it packs only the atlas
\* column and does not depend on the atlas row (src=[32,32] at grid size 16
\* gives 131072).  The code's table of "working" cells breaks this.
C1_SourcePacksOnlyColumn ==
    pc = "generated" =>
        \A i \in 1..Len(conversionData.layers) :
            \A j \in 1..Len(conversionData.layers[i].tiles) :
                TileDataOf(tscn.nodes[i + 1])[3 * j - 1]
                    = (conversionData.layers[i].tiles[j].src[1]
                          \div conversionData.layers[i].tileset.tileGridSize) * 65536

\* C2: for every flip pair (h,v) and atlas row r in 0..65535, the alternative
\* integer of a tile has bit 28 set iff h, bit 29 set iff v, and its low 16
\* bits equal r.  The code never writes the flip bits.
C2_AlternativeCarriesFlipsAndRow ==
    pc = "generated" =>
        \A i \in 1..Len(conversionData.layers) :
            \A j \in 1..Len(conversionData.layers[i].tiles) :
                LET tile == conversionData.layers[i].tiles[j]
                    r == tile.src[2] \div conversionData.layers[i].tileset.tileGridSize
                    alt == TileDataOf(tscn.nodes[i + 1])[3 * j]
                IN  r \in 0..65535 =>
                        /\ BitSet(alt, 28) <=> (tile.f % 2 = 1)
                        /\ BitSet(alt, 29) <=> ((tile.f \div 2) % 2 = 1)
                        /\ alt % 65536 = r

C3_TileA == [px |-> <<0, 0>>, src |-> <<0, 0>>, f |-> 0]
C3_TileB == [px |-> <<16, 16>>, src |-> <<16, 16>>, f |-> 0]
C3_Input ==
    /\ Len(InputLayers) = 1
    /\ InputLayers[1].identifier = "Collisions_baked"
    /\ InputTiles \in {<<C3_TileA, C3_TileB>>, <<C3_TileB, C3_TileA>>}
C3_Output(array) ==
    /\ Cardinality({i \in 1..Len(tscn.nodes) : "tile_data" \in DOMAIN tscn.nodes[i]}) = 1
    /\ \E i \in 1..Len(tscn.nodes) : TileDataOf(tscn.nodes[i]) = array

\* C3 as stated: the two-tile Collisions_baked level yields exactly one
\* tile_data array, [0, 0, 0, 65537, 65536, 16].
C3_RoundTripAsStated ==
    (pc = "generated" /\ C3_Input) => C3_Output(<<0, 0, 0, 65537, 65536, 16>>)

\* C3, amended: the two-tile Collisions_baked level yields exactly one
\* tile_data array, [0, 0, 0, 65537, 65536, 1]: the alternative of atlas
\* row 1 is 1.
C3_RoundTrip ==
    (pc = "generated" /\ C3_Input) => C3_Output(<<0, 0, 0, 65537, 65536, 1>>)

C3_Witness == pc = "generated" /\ InputTiles = <<C3_TileB, C3_TileA>>

\* C4: for 0 <= gx < 65536 and gy >= 0, pos = gridToGodotPosition(gx, gy)
\* decodes back exactly (pos % 65536 = gx, pos \div 65536 = gy), and no other
\* cell of that range has the same position.
C4_PositionDecodes ==
    (pc = "encoded" /\ 0 <= gridX /\ gridX < 65536 /\ gridY >= 0) =>
        /\ position % 65536 = gridX
        /\ position \div 65536 = gridY
        /\ \A x \in GridXs \cap (0..65535), y \in GridYs \cap Nat :
               gridToGodotPosition(x, y) = position => (x = gridX /\ y = gridY)

C4_Witness == pc = "encoded" /\ gridX = 65535 /\ gridY = 4095 /\ position = 268435455

\* C5: whatever the input order of a layer's tiles, the triplets of its
\* tile_data are sorted by grid Y and, within equal grid Y, by grid X; tiles
\* at pixels (0,0), (16,0), (0,16) come out as cells (0,0), (1,0), (0,1).
C5_TripletsSortedYMajor ==
    pc = "generated" =>
        \A i \in 2..Len(tscn.nodes) :
            LET td == TileDataOf(tscn.nodes[i])
                n == Len(td) \div 3
                gx(j) == td[3 * j - 2] % 65536
                gy(j) == td[3 * j - 2] \div 65536
            IN  /\ \A j, k \in 1..n :
                       j < k => \/ gy(j) < gy(k)
                                \/ gy(j) = gy(k) /\ gx(j) <= gx(k)
                /\ ( /\ Len(InputTiles) = 3
                     /\ \A m \in 1..3 : WellFormed(InputTiles[m])
                     /\ {InputTiles[m].px : m \in 1..3} = {<<0, 0>>, <<16, 0>>, <<0, 16>>} )
                   => [j \in 1..n |-> <<gx(j), gy(j)>>] = <<<<0, 0>>, <<1, 0>>, <<0, 1>>>>

C5_Witness ==
    /\ pc = "generated"
    /\ Len(InputTiles) = 3
    /\ \A m \in 1..3 : WellFormed(InputTiles[m])
    /\ [m \in 1..3 |-> InputTiles[m].px] = <<<<0, 16>>, <<16, 0>>, <<0, 0>>>>

\* The triplet a well-formed tile stands for under the supported tileset.
C6_TripletOf(tile) ==
    <<(tile.px[2] \div 16) * 65536 + (tile.px[1] \div 16),
      ldtkSourceToGodotSource(tile.src[1], tile.src[2], SunnyLandUid),
      getAlternativeTileId(extractFlipFlags(tile.f),
                           tile.src[1] \div 16, tile.src[2] \div 16)>>

C6_AllWellFormed == \A m \in 1..Len(InputTiles) : WellFormed(InputTiles[m])

\* C6: for a layer whose tile records are all well-formed, tile_data holds
\* exactly 3 integers per input tile, as position, source, alternative; every
\* input tile's triplet occurs as often as the tile does, tiles that share a
\* grid cell included.
C6_ThreeIntegersPerTile ==
    (pc = "generated" /\ C6_AllWellFormed) =>
        LET td == TileDataOf(tscn.nodes[2])
        IN  /\ Len(td) = 3 * Len(InputTiles)
            /\ \A m \in 1..Len(InputTiles) :
                   Cardinality({j \in 1..Len(InputTiles) :
                                   TripletAt(td, j) = C6_TripletOf(InputTiles[m])})
                     = Cardinality({k \in 1..Len(InputTiles) :
                                   C6_TripletOf(InputTiles[k]) = C6_TripletOf(InputTiles[m])})

C6_Witness ==
    /\ pc = "generated"
    /\ C6_AllWellFormed
    /\ Len(InputTiles) = 3
    /\ InputTiles[1].px = <<16, 0>> /\ InputTiles[2].px = <<0, 0>>
    /\ InputTiles[3].px = <<17, 3>>
    /\ Len(TileDataOf(tscn.nodes[2])) = 9

\* C7: a selected layer whose tileset UID matches no definition, or whose
\* tileset is not the supported one, is dropped; convertLevel still returns,
\* and returns every other selected layer, unchanged and in the original
\* relative order.
C7_OnlyUnusableLayersDropped ==
    pc # "loaded" =>
        /\ conversionData # NoValue
        /\ Len(conversionData.layers) = Len(UsableLayers)
        /\ \A i \in 1..Len(UsableLayers) :
               LET out == conversionData.layers[i]
                   in == UsableLayers[i]
                   good == FilterSeq(in.gridTiles, WellFormed)
               IN  /\ out.identifier = in.identifier
                   /\ out.tileset.uid = in.tilesetDefUid
                   /\ Len(out.tiles) = Len(good)
                   /\ {out.tiles[j].px : j \in 1..Len(out.tiles)}
                        = {good[j].px : j \in 1..Len(good)}

C7_Witness ==
    /\ pc = "converted"
    /\ Len(SelectedLayers) = 3
    /\ TilesetUsable(SelectedLayers[1])
    /\ ~TilesetUsable(SelectedLayers[2])
    /\ TilesetUsable(SelectedLayers[3])
    /\ SelectedLayers[1].identifier = "Wall_shadows_baked"
    /\ SelectedLayers[3].identifier = "Collisions_baked"
    /\ Len(conversionData.layers) = 2

\* C8: whenever a conversion skips a layer, the value returned to the caller
\* carries a non-empty warnings list.  The code only writes to the console.
C8_SkippedLayerIsReported ==
    (pc = "converted" /\ Len(UsableLayers) < Len(SelectedLayers)) =>
        /\ "warnings" \in DOMAIN conversionData
        /\ Len(conversionData.warnings) > 0

\* C9: the layers selected for conversion are exactly the level's layer
\* instances whose identifier is one of the three recognized ones and whose
\* inclusion option is not explicitly false; an absent option includes the
\* layer, and any other identifier is never selected.
C9_SelectionByIdentifierAndOption ==
    pc = "converted" =>
        /\ [i \in 1..Len(conversionData.layers) |-> conversionData.layers[i].identifier]
             = [i \in 1..Len(SelectedLayers) |-> SelectedLayers[i].identifier]
        /\ \A i \in 1..Len(conversionData.layers) :
               conversionData.layers[i].identifier \in
                   {"Collisions_baked", "Wall_shadows_baked", "Bg_textures_baked"}

C9_Witness ==
    /\ pc = "converted"
    /\ DOMAIN options = {"includeCollisions", "includeBackground"}
    /\ options["includeCollisions"] = FALSE
    /\ options["includeBackground"] = TRUE
    /\ [i \in 1..Len(InputLayers) |-> InputLayers[i].identifier]
         = <<"Entities", "Collisions_baked", "Wall_shadows_baked">>
    /\ Len(conversionData.layers) = 1
    /\ conversionData.layers[1].identifier = "Wall_shadows_baked"


\* The last handler was a convertLevel request, made with a document loaded,
\* whose identifier none of the document's levels carries.
C10_UnknownLevelRequested ==
    /\ pc = "convertLevel"
    /\ currentData # NoValue
    /\ \A i \in 1..Len(currentData.levels) :
           currentData.levels[i].identifier # levelIdentifier

\* C10: a convertLevel request whose level identifier matches no level of the
\* loaded document ends with the level-not-found error shown; it returns no
\* conversion data, logs no layer work, produces no TSCN, schedules no result
\* and leaves the stored and displayed result as they were.
C10_UnknownLevelFailsBeforeLayers ==
    [][C10_UnknownLevelRequested' =>
          /\ thrown' = "Level not found"
          /\ fileStatus' = [type |-> "error", message |-> "Level not found"]
          /\ conversionData' = NoValue
          /\ console' = << >>
          /\ tscn' = NoValue
          /\ timers' = timers
          /\ storedResult' = storedResult
          /\ outputShown' = outputShown]_vars

\* Such a request was made, for a level name left selected from a document
\* loaded earlier, and failed.
C10_Witness ==
    /\ C10_UnknownLevelRequested
    /\ levelIdentifier = OtherLevelName
    /\ thrown = "Level not found"
    /\ conversionData = NoValue

\* The last handler was a convertLevel request, made with a document loaded,
\* for a level of the document none of whose layers is both selected by the
\* options and under a usable tileset.
C11_NoLayerRemains ==
    /\ pc = "convertLevel"
    /\ currentData # NoValue
    /\ \E i \in 1..Len(data.levels) : data.levels[i].identifier = levelIdentifier
    /\ Len(UsableLayers) = 0

\* C11: when zero layers remain after option filtering and the per-layer
\* tileset checks, the request aborts with an error: validation rejects the
\* empty layer list, so generateTSCN is never given it; no TSCN is produced,
\* no result is scheduled, and the stored and displayed result stay as they
\* were.
C11_ZeroLayersAbort ==
    [][C11_NoLayerRemains' =>
          /\ thrown' = "Conversion validation failed"
          /\ fileStatus'.type = "error"
          /\ tscn' = NoValue
          /\ timers' = timers
          /\ storedResult' = storedResult
          /\ outputShown' = outputShown]_vars

\* Such a request: the collisions layer is excluded by its option and the
\* shadows layer is dropped for its tileset.
C11_Witness ==
    /\ C11_NoLayerRemains
    /\ levelIdentifier = LevelName
    /\ Len(InputLayers) = 2
    /\ options.includeCollisions = FALSE
    /\ thrown = "Conversion validation failed"
    /\ Len(conversionData.layers) = 0

\* The node name the layer configuration gives a recognized layer.
C12_NodeName(identifier) ==
    CASE identifier = "Collisions_baked" -> Name_Collisions
      [] identifier = "Wall_shadows_baked" -> Name_WallShadows
      [] identifier = "Bg_textures_baked" -> Name_Background

\* C12: after the root node the document holds one TileMap node per
\* included layer, in the relative order of the corresponding layer
\* instances of the level; the order follows neither z-index nor identifier.
C12_NodesInLayerOrder ==
    pc = "generated" =>
        /\ tscn.nodes[1].type = "Node2D"
        /\ Len(tscn.nodes) = 1 + Len(UsableLayers)
        /\ \A i \in 1..Len(UsableLayers) :
               /\ tscn.nodes[i + 1].type = "TileMap"
               /\ tscn.nodes[i + 1].name = C12_NodeName(UsableLayers[i].identifier)

\* Three layers come out as they stand in the level, collisions (z-index 2)
\* before the background (z-index 0), with an unusable layer between them
\* left out.
C12_Witness ==
    /\ pc = "generated"
    /\ [i \in 1..Len(InputLayers) |-> InputLayers[i].identifier]
         = <<"Collisions_baked", "Wall_shadows_baked", "Bg_textures_baked">>
    /\ ~TilesetUsable(InputLayers[2])
    /\ Len(tscn.nodes) = 3
    /\ tscn.nodes[2].z_index = 2
    /\ tscn.nodes[2].name = Name_Collisions
    /\ tscn.nodes[3].name = Name_Background

\* The tileset identifiers of the layers given to the generator, and the
\* positions at which an identifier occurs for the first time.
C13_Identifiers ==
    [i \in 1..Len(conversionData.layers) |-> conversionData.layers[i].tileset.identifier]
C13_FirstOccurrences ==
    {i \in 1..Len(C13_Identifiers) :
        \A j \in 1..(i - 1) : C13_Identifiers[j] # C13_Identifiers[i]}
C13_Distinct(k) ==
    C13_Identifiers[CHOOSE i \in C13_FirstOccurrences :
                        Cardinality({j \in C13_FirstOccurrences : j <= i}) = k]

\* C13: for a non-empty list of layers, load_steps is twice the number of
\* distinct tileset identifiers plus one, and the document declares
\* load_steps - 1 external resources: for each distinct tileset, in order of
\* first occurrence, its texture and then its tileset.
C13_LoadStepsCountResources ==
    pc = "generated" =>
        LET n == Cardinality(C13_FirstOccurrences)
            res == tscn.externalResources
        IN  /\ tscn.header.load_steps = 2 * n + 1
            /\ Len(res) = tscn.header.load_steps - 1
            /\ \A k \in 1..n :
                   /\ res[2 * k - 1].type = "Texture2D"
                   /\ res[2 * k - 1].path = getTextureResourcePath(C13_Distinct(k))
                   /\ res[2 * k].type = "TileSet"
                   /\ res[2 * k].path = getTilesetResourcePath(C13_Distinct(k))

\* Three layers over two tilesets, the first tileset used again last.
C13_Witness ==
    /\ pc = "generated"
    /\ C13_Identifiers = <<"ClassicAutoTiles", "SunnyLand_by_Ansimuz", "ClassicAutoTiles">>
    /\ tscn.header.load_steps = 5
    /\ Len(tscn.externalResources) = 4

\* C14: for every input string, the empty string and strings starting with
\* a digit included, sanitizeNodeName returns a non-empty string of
\* characters in [A-Za-z0-9_] whose first character is a letter or an
\* underscore, and applying it to its own output changes nothing.
C14_SanitizedNameIsIdentifier ==
    pc = "generated" =>
        LET out == tscn.nodes[1].name
        IN  /\ Len(out) > 0
            /\ \A i \in 1..Len(out) : out[i] \in Letters \cup Digits \cup {"_"}
            /\ out[1] \in Letters \cup {"_"}
            /\ sanitizeNodeName(out) = out

\* The root node of a level named "7 a" is named "_7_a".
C14_Witness ==
    /\ pc = "generated"
    /\ levelIdentifier = <<"7", " ", "a">>
    /\ tscn.nodes[1].name = <<"_", "7", "_", "a">>

\* C15: the filename handed to Utils.downloadFile is the sanitized level
\* identifier followed by .tscn: before the suffix it holds only characters
\* of [A-Za-z0-9_-].  The code hands over the identifier as it is.
C15_DownloadNameSanitized ==
    downloaded # NoValue =>
        LET name == downloaded.filename
            stem == SubSeq(name, 1, Len(name) - 5)
        IN  /\ SubSeq(name, Len(name) - 4, Len(name)) = <<".", "t", "s", "c", "n">>
            /\ \A i \in 1..Len(stem) : stem[i] \in Letters \cup Digits \cup {"_", "-"}

\* C16: a tile with f=3 gets an alternative with bit 28 and bit 29 set, and
\* the alternative of the same tile with f=0 differs from it in exactly
\* those two bits.  The code writes the same alternative for both.
C16_BothFlipBitsSet ==
    (pc = "generated" /\ InputTiles[1].f = 3) =>
        LET alt == TileDataOf(tscn.nodes[2])[3]
            tile == conversionData.layers[1].tiles[1]
            g == conversionData.layers[1].tileset.tileGridSize
            unflipped == getAlternativeTileId(extractFlipFlags(0),
                                              tile.src[1] \div g, tile.src[2] \div g)
        IN  /\ BitSet(alt, 28)
            /\ BitSet(alt, 29)
            /\ alt - unflipped = 2 ^ 28 + 2 ^ 29

\* The well-formed tiles of the layer whose flip mask has bit 0 or bit 1 set.
C17_Flipped ==
    {m \in 1..Len(InputTiles) : WellFormed(InputTiles[m]) /\ InputTiles[m].f % 4 # 0}

C17_RotationWarnings ==
    {k \in 1..Len(console) : console[k].code = "cannot_rotate"}

\* C17: a flipped tile is still emitted, with the source and alternative of
\* its own atlas cell floor(src / grid size), and a rotation warning is
\* logged for each flipped tile, naming its cell, and for no other tile.
C17_FlippedTilesKeepCell ==
    pc = "generated" =>
        LET td == TileDataOf(tscn.nodes[2])
            tiles == conversionData.layers[1].tiles
        IN  /\ Len(td) = 3 * Len(tiles)
            /\ Len(tiles) = Cardinality({m \in 1..Len(InputTiles) : WellFormed(InputTiles[m])})
            /\ \A j \in 1..Len(tiles) :
                   /\ td[3 * j - 1] =
                          getGodotSourceFromAtlas(tiles[j].src[1] \div 16, tiles[j].src[2] \div 16)
                   /\ td[3 * j] =
                          getAlternativeTileId(extractFlipFlags(0),
                                               tiles[j].src[1] \div 16, tiles[j].src[2] \div 16)
            /\ Cardinality(C17_RotationWarnings) = Cardinality(C17_Flipped)
            /\ {console[k].subject : k \in C17_RotationWarnings}
                 = {<<InputTiles[m].src[1] \div 16, InputTiles[m].src[2] \div 16>>
                       : m \in C17_Flipped}

\* A flipped tile between two unflipped ones: three tiles out, one warning.
C17_Witness ==
    /\ pc = "generated"
    /\ Len(InputTiles) = 3
    /\ C17_Flipped = {2}
    /\ InputTiles[2].f = 3
    /\ Len(TileDataOf(tscn.nodes[2])) = 9
    /\ Cardinality(C17_RotationWarnings) = 1

\* The records of the layer that miss px, src or f.
C18_Malformed == {m \in 1..Len(InputTiles) : ~WellFormed(InputTiles[m])}

\* C18: a tile record missing px, src or f is skipped with a logged warning
\* and never fails the layer: the layer is returned, and its processed tiles
\* are exactly the well-formed records of the input, each as often as it
\* occurs there.
C18_MalformedTilesSkipped ==
    pc # "loaded" =>
        /\ thrown = NoError
        /\ Len(conversionData.layers) = 1
        /\ LET tiles == conversionData.layers[1].tiles
               Same(t, r) == t.px = r.px /\ t.src = r.src /\ t.f = r.f
           IN  /\ Len(tiles) = Len(InputTiles) - Cardinality(C18_Malformed)
               /\ \A m \in 1..Len(InputTiles) :
                      WellFormed(InputTiles[m]) =>
                          Cardinality({j \in 1..Len(tiles) : Same(tiles[j], InputTiles[m])})
                            = Cardinality({k \in 1..Len(InputTiles) :
                                              /\ WellFormed(InputTiles[k])
                                              /\ Same(InputTiles[k], InputTiles[m])})
        /\ Cardinality({k \in 1..Len(console) : console[k].code = "invalid_tile"})
             = Cardinality(C18_Malformed)
        /\ \A k \in 1..Len(console) :
               console[k].code = "invalid_tile" =>
                   \E m \in C18_Malformed : console[k].subject = InputTiles[m]

\* A record without px and one without f around a well-formed tile: the
\* layer comes out with that one tile.
C18_Witness ==
    /\ pc = "generated"
    /\ Len(InputTiles) = 3
    /\ DOMAIN InputTiles[1] = {"src", "f"}
    /\ WellFormed(InputTiles[2])
    /\ DOMAIN InputTiles[3] = {"px", "src"}
    /\ Len(conversionData.layers[1].tiles) = 1
    /\ Len(TileDataOf(tscn.nodes[2])) = 3

\* The identifier of the tileset definition a layer refers to.
C19_TilesetOf(layer) ==
    data.tilesets[CHOOSE i \in 1..Len(data.tilesets) :
                      data.tilesets[i].uid = layer.tilesetDefUid].identifier

C19_Valid(layer) == C19_TilesetOf(layer) = "SunnyLand_by_Ansimuz"
C19_Invalid(layer) == ~C19_Valid(layer)

C19_SkipWarnings == FilterSeq(console, LAMBDA w : w.code = "skipping_layer")

\* C19: validateTileset reports valid only for SunnyLand_by_Ansimuz: the
\* layers kept are those under that identifier; for every other identifier
\* it reports invalid with a message that holds the identifier, which the
\* skip warning of the layer carries; it never throws.
C19_OnlySunnyLandValid ==
    pc # "loaded" =>
        /\ conversionData # NoValue
        /\ [i \in 1..Len(conversionData.layers) |-> conversionData.layers[i].tileset.identifier]
             = [i \in 1..Len(FilterSeq(InputLayers, C19_Valid)) |-> "SunnyLand_by_Ansimuz"]
        /\ Len(C19_SkipWarnings) = Len(FilterSeq(InputLayers, C19_Invalid))
        /\ \A k \in 1..Len(C19_SkipWarnings) :
               \E p \in 1..Len(C19_SkipWarnings[k].message) :
                   C19_SkipWarnings[k].message[p]
                       = C19_TilesetOf(FilterSeq(InputLayers, C19_Invalid)[k])

\* A layer under an identifier that differs from the supported one only in
\* case is reported invalid, next to a valid one.
C19_Witness ==
    /\ pc = "converted"
    /\ Len(InputLayers) = 2
    /\ C19_TilesetOf(InputLayers[1]) = "sunnyland_by_ansimuz"
    /\ C19_TilesetOf(InputLayers[2]) = "SunnyLand_by_Ansimuz"
    /\ Len(conversionData.layers) = 1
    /\ Len(C19_SkipWarnings) = 1
    /\ C19_SkipWarnings[1].message[2] = "sunnyland_by_ansimuz"


\* C20: Utils.pixelToGrid answers, for every pixel and every grid size
\* g > 0, the cell whose corner is at or before the pixel and whose next
\* corner is after it (floor toward minus infinity, negative coordinates
\* included), and applied again to that cell scaled back to pixels it
\* answers the same cell.
C20_RescaledPixelSameCell ==
    [][/\ pc' = "gridded" =>
            \A i \in {1, 2} :
                /\ gridPos'[i] * gridSize <= pixel[i]
                /\ pixel[i] < (gridPos'[i] + 1) * gridSize
       /\ pc' = "regridded" => gridPos' = gridPos]_vars

C20_Witness ==
    /\ pc = "regridded"
    /\ gridSize = 16
    /\ pixel = <<-16, 0>>
    /\ gridPos = <<-1, 0>>

(***************************************************************************)
(* C21..C30                                                                *)
(***************************************************************************)

\* The triplet integers a converted layer produces, in emission order.
C21_Triplets(layer) ==
    [n \in 1..(3 * Len(layer.tiles)) |->
        tileTriplet(layer, layer.tiles[(n + 2) \div 3]).triplet[((n - 1) % 3) + 1]]

\* C21: in a node block the layer_0/tile_data line is present iff the layer
\* produced at least one triplet, and then it is one array of all the
\* layer's triplet integers in emission order; the modulate line is present
\* iff the configured modulate is not Color(1, 1, 1, 1), and the z_index
\* line iff the configured z-index is not 0.
C21_OptionalNodeLines ==
    pc = "generated" =>
        \A k \in 1..Len(conversionData.layers) :
            LET layer == conversionData.layers[k]
                config == getLayerConfig(layer.identifier)
                node == tscn.nodes[k + 1]
            IN  /\ ("tile_data" \in DOMAIN node) <=> (Len(layer.tiles) > 0)
                /\ "tile_data" \in DOMAIN node => node.tile_data = C21_Triplets(layer)
                /\ ("modulate" \in DOMAIN node) <=> (config.modulate # "Color(1, 1, 1, 1)")
                /\ "modulate" \in DOMAIN node => node.modulate = config.modulate
                /\ ("z_index" \in DOMAIN node) <=> (config.zIndex # 0)
                /\ "z_index" \in DOMAIN node => node.z_index = config.zIndex

\* A shadows layer of two tiles, a background layer whose only record is
\* malformed, and a collisions layer with no tile.
C21_Witness ==
    /\ pc = "generated"
    /\ [k \in 1..Len(conversionData.layers) |-> conversionData.layers[k].identifier]
         = <<"Wall_shadows_baked", "Bg_textures_baked", "Collisions_baked">>
    /\ Len(InputLayers[2].gridTiles) = 1
    /\ Len(TileDataOf(tscn.nodes[2])) = 6
    /\ DOMAIN tscn.nodes[2] \cap {"modulate", "z_index", "tile_data"}
         = {"modulate", "z_index", "tile_data"}
    /\ DOMAIN tscn.nodes[3] \cap {"modulate", "z_index", "tile_data"} = {}
    /\ DOMAIN tscn.nodes[4] \cap {"modulate", "z_index", "tile_data"} = {"z_index"}


\* C22: handleConvert starts a conversion only when no file load and no
\* other conversion has shown progress without yet finishing: no load is
\* suspended at its read and no completion timer is still to fire.  The
\* code tells this from the one flag converting, which the first load or
\* conversion to finish clears for all of them.
C22_NoConversionWhileBusy ==
    [][pc' = "convertLevel" => (pendingReads = EmptyBag /\ timers = << >>)]_vars


\* C23: after any sequence of file loads within a session the backup store
\* holds at most 5 backups.  The code evicts only in initialize, so every
\* load after that adds a backup.
C23_AtMostFiveBackups == Cardinality(localStorage.keys) <= 5


\* C24: once handleDownload has delivered the generated text, no stored
\* TSCN content of that conversion remains, so that a further download
\* cannot deliver it again.  The code keeps tscnContent and filename after
\* the download.
C24_ResultDiscardedAfterDownload ==
    (pc = "handleDownload" /\ downloaded # NoValue) => storedResult = NoValue


\* C25: for a tileset that passes validation, whatever tileGridSize the
\* document declares for it, the atlas column packed into a tile's source
\* and the atlas row used for its alternative both come from the one cell
\* (floor(srcX / tileGridSize), floor(srcY / tileGridSize)) of the declared
\* tileGridSize.  The code divides the source a second time, by the
\* mapper's own grid size.
C25_OneAtlasCell ==
    pc = "generated" =>
        \A i \in 1..Len(conversionData.layers) :
            \A j \in 1..Len(conversionData.layers[i].tiles) :
                LET layer == conversionData.layers[i]
                    tile == layer.tiles[j]
                    atlasX == tile.src[1] \div layer.tileset.tileGridSize
                    atlasY == tile.src[2] \div layer.tileset.tileGridSize
                    triplet == TripletAt(TileDataOf(tscn.nodes[i + 1]), j)
                IN  /\ triplet[2] = getGodotSourceFromAtlas(atlasX, atlasY)
                    /\ triplet[3] = getAlternativeTileId(tile.flipFlags, atlasX, atlasY)


\* C26: in every assembled document each TileMap node's tile_set line
\* references the resource id 1_tileset, an ext_resource of type TileSet
\* with that id is declared in the part of the document before the nodes,
\* and the declared ext_resource ids are pairwise distinct.
C26_TileSetReferenceDeclared ==
    pc = "generated" =>
        LET res == tscn.externalResources
        IN  /\ \A n \in 2..Len(tscn.nodes) :
                   /\ tscn.nodes[n].type = "TileMap"
                   /\ tscn.nodes[n].tile_set = <<1, "_tileset">>
            /\ \E r \in 1..Len(res) :
                   res[r].type = "TileSet" /\ res[r].id = <<1, "_tileset">>
            /\ \A r, q \in 1..Len(res) : res[r].id = res[q].id => r = q

\* Three layers over three tilesets: six resources, all nodes on the first.
C26_Witness ==
    /\ pc = "generated"
    /\ Len(tscn.nodes) = 4
    /\ Len(tscn.externalResources) = 6
    /\ tscn.externalResources[6].id = <<3, "_tileset">>
    /\ tscn.nodes[4].tile_set = <<1, "_tileset">>


C28_CanConvert(state) == state.fileLoaded /\ state.levelSelected /\ ~state.converting

\* C28: after every UI operation (onFileLoaded, handleLevelSelect,
\* showProgress, hideProgress, showError, reset) the Convert button is
\* enabled iff fileLoaded and levelSelected are true and converting is
\* false, and handleConvert starts no conversion when that condition is
\* false.
C28_ButtonFollowsState ==
    [][/\ (\/ pc' \in {"timer", "handleLevelSelect", "convertLevel", "reset"}
           \/ pc' = "loadFile" /\ thrown' # NoError
           \/ pc' = "handleFileSelect" /\ pendingReads' # pendingReads)
          => (~convertBtnDisabled' <=> C28_CanConvert(uiState'))
       /\ pc' = "convertLevel" => C28_CanConvert(uiState)]_vars

\* The result timer of a conversion has hidden the progress and enabled
\* the button again.
C28_Witness ==
    /\ pc = "timer"
    /\ storedResult # NoValue
    /\ outputShown
    /\ C28_CanConvert(uiState)
    /\ ~convertBtnDisabled


\* C29: whenever the UI state fileLoaded is true the application holds a
\* loaded document, so that a conversion started from an enabled Convert
\* button never fails with 'No LDtk file loaded'.  In the code a failed
\* load forgets the document and leaves fileLoaded as it was.
C29_FileLoadedHasDocument ==
    /\ uiState.fileLoaded => currentData # NoValue
    /\ ~(pc = "convertLevel" /\ thrown = "No LDtk file loaded")


\* C30: every file load or conversion that shows the progress indicator
\* eventually hides it again, on the success path and on every error path:
\* once converting is true it becomes false again with the Convert button
\* refreshed, given that every file read settles and every scheduled timer
\* fires.
C30_ProgressEventuallyHidden ==
    uiState.converting ~>
        (~uiState.converting /\ convertBtnDisabled = updateConvertButton(uiState))

\* A load that failed validation has hidden its progress through showError.
C30_Witness ==
    /\ pc = "loadFile"
    /\ thrown = "No levels found in the file"
    /\ fileStatus.type = "error"
    /\ ~uiState.converting

=============================================================================
